---- MODULE Spec2Model ----
(***************************************************************************)
(* Model of the LinkedIn Easy Apply form filler (auto_apply_enhanced.py):  *)
(* the per-page field dispatcher and the page navigation state machine of  *)
(* EnhancedAutoApply.fill_linkedin_easy_apply, together with the answer    *)
(* handlers it calls.  Python strings are modelled as sequences of one-    *)
(* character strings so that `in' is a real substring test.                *)
(***************************************************************************)
EXTENDS Integers, Sequences, FiniteSets, TLC

\* ------------------------------------------------------------------------
\* Strings
\* ------------------------------------------------------------------------

UpperChars == <<"A","B","C","D","E","F","G","H","I","J","K","L","M","N","O","P","Q","R","S","T","U","V","W","X","Y","Z">>

LowerChars == <<"a","b","c","d","e","f","g","h","i","j","k","l","m","n","o","p","q","r","s","t","u","v","w","x","y","z">>

DigitChars == <<"0","1","2","3","4","5","6","7","8","9">>

\* str.lower() on one character
LowerChar(c) ==
    IF \E k \in 1..Len(UpperChars) : UpperChars[k] = c
    THEN LowerChars[CHOOSE k \in 1..Len(UpperChars) : UpperChars[k] = c]
    ELSE c

\* str.lower()
Lower(s) == [k \in 1..Len(s) |-> LowerChar(s[k])]

\* Python `a in b' on strings
IsSubstr(a, b) ==
    \E k \in 0..(Len(b) - Len(a)) : SubSeq(b, k + 1, k + Len(a)) = a

\* str.isdigit on one character
IsDigit(c) == \E k \in 1..Len(DigitChars) : DigitChars[k] = c

\* the phone typed as the profile has it, formatting included
FilterDigitsKeepAll(s) == s

\* ''.join(filter(str.isdigit, s))
RECURSIVE FilterDigits(_)
FilterDigits(s) ==
    IF s = <<>> THEN <<>>
    ELSE IF IsDigit(Head(s)) THEN <<Head(s)>> \o FilterDigits(Tail(s))
    ELSE FilterDigits(Tail(s))

\* str(n) for a non-negative integer
RECURSIVE StrOfNat(_)
StrOfNat(n) ==
    IF n < 10 THEN <<DigitChars[n + 1]>>
    ELSE StrOfNat(n \div 10) \o <<DigitChars[(n % 10) + 1]>>

\* ------------------------------------------------------------------------
\* Profile: a dict; a missing key falls back to the default of the call
\* ------------------------------------------------------------------------

\* self.profile.get(key, default)
ProfileGet(p, key, default) == IF key \in DOMAIN p THEN p[key] ELSE default

\* ------------------------------------------------------------------------
\* Resolved actions handed to the page-automation layer
\* ------------------------------------------------------------------------

Skip == [kind |-> "Skip", text |-> <<>>, index |-> 0, sent |-> FALSE]

\* field.clear() then field.send_keys(value); a failing clear() means that
\* send_keys is never reached, and either failure is swallowed.
fill_text_field(value, fault) ==
    [kind |-> "SetValue", text |-> value, index |-> 0, sent |-> (fault # "clear")]

handle_phone_number(p, fault) ==
    fill_text_field(FilterDigits(ProfileGet(p, "phone", <<>>)), fault)

\* experience_map in insertion order
experience_keys == << <<"t", "o", "t", "a", "l">>, <<"p", "y", "t", "h", "o", "n">>, <<"f", "i", "n", "a", "n", "c", "e">>, <<"t", "r", "a", "d", "i", "n", "g">>, <<"o", "p", "e", "r", "a", "t", "i", "o", "n", "s">> >>

experience_map(p) ==
    << ProfileGet(p, "total_years_experience", 3),
       ProfileGet(p, "python_years", 2),
       ProfileGet(p, "finance_years", 3),
       ProfileGet(p, "trading_years", 2),
       ProfileGet(p, "operations_years", 2) >>

handle_years_experience(p, question_text, fault) ==
    LET question_lower == Lower(question_text)
        hits == {k \in 1..Len(experience_keys) : IsSubstr(experience_keys[k], question_lower)}
    IN  IF hits # {}
        THEN fill_text_field(StrOfNat(experience_map(p)[CHOOSE k \in hits : \A j \in hits : k <= j]), fault)
        ELSE fill_text_field(StrOfNat(experience_map(p)[1]), fault)

\* the linkedin test placed above the phone test
TextCategoryLinkedinFirst(label_text) ==
    IF IsSubstr(<<"l", "i", "n", "k", "e", "d", "i", "n">>, label_text) THEN "linkedin-url"
    ELSE IF IsSubstr(<<"p", "h", "o", "n", "e">>, label_text) THEN "phone"
    ELSE IF IsSubstr(<<"y", "e", "a", "r">>, label_text) /\ IsSubstr(<<"e", "x", "p", "e", "r", "i", "e", "n", "c", "e">>, label_text)
         THEN "years-experience"
    ELSE IF IsSubstr(<<"w", "e", "b", "s", "i", "t", "e">>, label_text) \/ IsSubstr(<<"p", "o", "r", "t", "f", "o", "l", "i", "o">>, label_text)
         THEN "portfolio-url"
    ELSE IF IsSubstr(<<"g", "i", "t", "h", "u", "b">>, label_text) THEN "github-url"
    ELSE "unclassified"

\* year OR experience instead of year AND experience
TextCategoryEitherKeyword(label_text) ==
    IF IsSubstr(<<"p", "h", "o", "n", "e">>, label_text) THEN "phone"
    ELSE IF IsSubstr(<<"y", "e", "a", "r">>, label_text) \/ IsSubstr(<<"e", "x", "p", "e", "r", "i", "e", "n", "c", "e">>, label_text)
         THEN "years-experience"
    ELSE IF IsSubstr(<<"l", "i", "n", "k", "e", "d", "i", "n">>, label_text) THEN "linkedin-url"
    ELSE IF IsSubstr(<<"w", "e", "b", "s", "i", "t", "e">>, label_text) \/ IsSubstr(<<"p", "o", "r", "t", "f", "o", "l", "i", "o">>, label_text)
         THEN "portfolio-url"
    ELSE IF IsSubstr(<<"g", "i", "t", "h", "u", "b">>, label_text) THEN "github-url"
    ELSE "unclassified"

\* The conditions of the if/elif chain over the label of one empty text
\* field: the branch taken
TextCategory(label_text) ==
    IF IsSubstr(<<"p", "h", "o", "n", "e">>, label_text) THEN "phone"
    ELSE IF IsSubstr(<<"y", "e", "a", "r">>, label_text) /\ IsSubstr(<<"e", "x", "p", "e", "r", "i", "e", "n", "c", "e">>, label_text)
         THEN "years-experience"
    ELSE IF IsSubstr(<<"l", "i", "n", "k", "e", "d", "i", "n">>, label_text) THEN "linkedin-url"
    ELSE IF IsSubstr(<<"w", "e", "b", "s", "i", "t", "e">>, label_text) \/ IsSubstr(<<"p", "o", "r", "t", "f", "o", "l", "i", "o">>, label_text)
         THEN "portfolio-url"
    ELSE IF IsSubstr(<<"g", "i", "t", "h", "u", "b">>, label_text) THEN "github-url"
    ELSE "unclassified"

\* The bodies of the if/elif chain over the label of one empty text field
TextFieldAction(p, label_text, fault) ==
    LET category == TextCategory(label_text)
    IN  CASE category = "phone" -> handle_phone_number(p, fault)
          [] category = "years-experience" -> handle_years_experience(p, label_text, fault)
          [] category = "linkedin-url" -> fill_text_field(ProfileGet(p, "linkedin_url", <<>>), fault)
          [] category = "portfolio-url" -> fill_text_field(ProfileGet(p, "portfolio_url", <<>>), fault)
          [] category = "github-url" -> fill_text_field(ProfileGet(p, "github_url", <<>>), fault)
          [] OTHER -> Skip

\* ------------------------------------------------------------------------
\* Dropdowns and radio groups
\* ------------------------------------------------------------------------

\* The `for i, opt in enumerate(options)' scans with their early return:
\* given, per option, whether the test of the scan holds, the 1-based
\* position of the first option that passes, 0 if none does.
FirstOption(passes) ==
    IF \E k \in 1..Len(passes) : passes[k]
    THEN CHOOSE k \in 1..Len(passes) : passes[k] /\ \A j \in 1..(k - 1) : ~passes[j]
    ELSE 0


\* The blocks of handle_dropdown are independent `if's: a block whose scan
\* selects nothing falls through to the blocks below it.  Each operator is
\* the 1-based position its block selects, 0 when the block selects nothing.
EducationChoice(p, options, q) ==
    LET target == Lower(ProfileGet(p, "education_level", <<"b", "a", "c", "h", "e", "l", "o", "r">>))
        T(opt) == IsSubstr(target, opt)
    IN  IF IsSubstr(<<"e", "d", "u", "c", "a", "t", "i", "o", "n">>, q) \/ IsSubstr(<<"d", "e", "g", "r", "e", "e">>, q)
        THEN FirstOption([k \in 1..Len(options) |-> T(options[k])]) ELSE 0

WorkAuthChoice(p, options, q) ==
    LET T(opt) == IsSubstr(<<"y", "e", "s">>, opt) \/ IsSubstr(<<"a", "u", "t", "h", "o", "r", "i", "z", "e", "d">>, opt)
    IN  IF (IsSubstr(<<"a", "u", "t", "h", "o", "r", "i", "z", "e", "d">>, q) \/ IsSubstr(<<"s", "p", "o", "n", "s", "o", "r", "s", "h", "i", "p">>, q))
           /\ ProfileGet(p, "work_authorized", TRUE)
        THEN FirstOption([k \in 1..Len(options) |-> T(options[k])]) ELSE 0

VisaChoice(p, options, q) ==
    LET visa_status == Lower(ProfileGet(p, "visa_status", <<"c", "i", "t", "i", "z", "e", "n">>))
        T(opt) == IsSubstr(visa_status, opt) \/ IsSubstr(<<"c", "i", "t", "i", "z", "e", "n">>, opt)
    IN  IF IsSubstr(<<"v", "i", "s", "a">>, q) THEN FirstOption([k \in 1..Len(options) |-> T(options[k])]) ELSE 0

PreferNot(opt) == IsSubstr(<<"p", "r", "e", "f", "e", "r", " ", "n", "o", "t">>, opt) \/ IsSubstr(<<"d", "e", "c", "l", "i", "n", "e">>, opt)

GenderChoice(p, options, q) ==
    LET gender == Lower(ProfileGet(p, "gender", <<>>))
        T(opt) == IsSubstr(gender, opt)
    IN  IF IsSubstr(<<"g", "e", "n", "d", "e", "r">>, q)
        THEN IF ProfileGet(p, "gender_disclosure", FALSE)
             THEN FirstOption([k \in 1..Len(options) |-> T(options[k])])
             ELSE FirstOption([k \in 1..Len(options) |-> PreferNot(options[k])])
        ELSE 0

\* a profile without an ethnicity selects nothing
EthnicityChoiceNeedsValue(p, options, q) ==
    LET ethnicity == Lower(ProfileGet(p, "ethnicity", <<>>))
        T(opt) == ethnicity # <<>> /\ IsSubstr(ethnicity, opt)
    IN  IF IsSubstr(<<"r", "a", "c", "e">>, q) \/ IsSubstr(<<"e", "t", "h", "n", "i", "c", "i", "t", "y">>, q)
        THEN IF ProfileGet(p, "ethnicity_disclosure", FALSE)
             THEN FirstOption([k \in 1..Len(options) |-> T(options[k])])
             ELSE FirstOption([k \in 1..Len(options) |-> PreferNot(options[k])])
        ELSE 0

EthnicityChoice(p, options, q) ==
    LET ethnicity == Lower(ProfileGet(p, "ethnicity", <<>>))
        T(opt) == IsSubstr(ethnicity, opt)
    IN  IF IsSubstr(<<"r", "a", "c", "e">>, q) \/ IsSubstr(<<"e", "t", "h", "n", "i", "c", "i", "t", "y">>, q)
        THEN IF ProfileGet(p, "ethnicity_disclosure", FALSE)
             THEN FirstOption([k \in 1..Len(options) |-> T(options[k])])
             ELSE FirstOption([k \in 1..Len(options) |-> PreferNot(options[k])])
        ELSE 0

VeteranChoice(p, options, q) ==
    LET is_veteran == ProfileGet(p, "veteran", FALSE)
        T(opt) == \/ is_veteran /\ IsSubstr(<<"y", "e", "s">>, opt)
                  \/ ~is_veteran /\ (IsSubstr(<<"n", "o">>, opt) \/ IsSubstr(<<"n", "o", "t">>, opt))
    IN  IF IsSubstr(<<"v", "e", "t", "e", "r", "a", "n">>, q) THEN FirstOption([k \in 1..Len(options) |-> T(options[k])]) ELSE 0

DisabilityChoice(p, options, q) ==
    IF IsSubstr(<<"d", "i", "s", "a", "b", "i", "l", "i", "t", "y">>, q) \/ IsSubstr(<<"d", "i", "s", "a", "b", "l", "e", "d">>, q)
    THEN FirstOption([k \in 1..Len(options) |-> PreferNot(options[k])]) ELSE 0

\* The first block, top to bottom, that selects something
DropdownChoice(p, options, q) ==
    LET c == << EducationChoice(p, options, q), WorkAuthChoice(p, options, q),
                VisaChoice(p, options, q), GenderChoice(p, options, q),
                EthnicityChoice(p, options, q), VeteranChoice(p, options, q),
                DisabilityChoice(p, options, q) >>
        hits == {b \in 1..Len(c) : c[b] # 0}
    IN  IF hits = {} THEN 0 ELSE c[CHOOSE b \in hits : \A d \in hits : b <= d]

\* handle_dropdown: select_by_index takes the 0-based index.  A failure
\* building the Select or reading its options selects nothing; a failing
\* select_by_index has been issued all the same.  Both are swallowed.
handle_dropdown(p, option_texts, question_text, fault) ==
    LET options == [k \in 1..Len(option_texts) |-> Lower(option_texts[k])]
        choice  == DropdownChoice(p, options, Lower(question_text))
    IN  IF fault = "select" \/ choice = 0 THEN Skip
        ELSE [kind |-> "SelectOption", text |-> <<>>, index |-> choice - 1, sent |-> TRUE]

RadioChoice(flag, options, asked) ==
    LET target == IF flag THEN <<"y", "e", "s">> ELSE <<"n", "o">>
        T(opt) == IsSubstr(target, Lower(opt))
    IN  IF asked THEN FirstOption([k \in 1..Len(options) |-> T(options[k])]) ELSE 0

\* handle_radio_buttons: same fall-through shape; reports the option clicked
handle_radio_buttons(p, question_text, options) ==
    LET q == Lower(question_text)
        c == << RadioChoice(ProfileGet(p, "work_authorized", TRUE), options,
                            IsSubstr(<<"a", "u", "t", "h", "o", "r", "i", "z", "e", "d">>, q) \/ IsSubstr(<<"s", "p", "o", "n", "s", "o", "r", "s", "h", "i", "p">>, q)),
                RadioChoice(ProfileGet(p, "willing_to_relocate", TRUE), options,
                            IsSubstr(<<"r", "e", "l", "o", "c", "a", "t", "e">>, q) \/ IsSubstr(<<"r", "e", "l", "o", "c", "a", "t", "i", "o", "n">>, q)),
                RadioChoice(ProfileGet(p, "open_to_remote", TRUE), options,
                            IsSubstr(<<"r", "e", "m", "o", "t", "e">>, q)) >>
        hits == {b \in 1..Len(c) : c[b] # 0}
    IN  IF hits = {} THEN Skip
        ELSE [kind |-> "Click", text |-> <<>>, sent |-> TRUE,
              index |-> c[CHOOSE b \in hits : \A d \in hits : b <= d] - 1]

\* handle_yes_no_question: the two phrase lists, scanned in this order
yes_keywords ==
    << <<"a", "u", "t", "h", "o", "r", "i", "z", "e", "d", " ", "t", "o", " ", "w", "o", "r", "k">>, <<"e", "l", "i", "g", "i", "b", "l", "e", " ", "t", "o", " ", "w", "o", "r", "k">>, <<"l", "e", "g", "a", "l", "l", "y", " ", "a", "u", "t", "h", "o", "r", "i", "z", "e", "d">>, <<"a", "b", "l", "e", " ", "t", "o", " ", "w", "o", "r", "k">>,
       <<"w", "i", "l", "l", "i", "n", "g", " ", "t", "o", " ", "r", "e", "l", "o", "c", "a", "t", "e">>, <<"a", "v", "a", "i", "l", "a", "b", "l", "e", " ", "t", "o", " ", "s", "t", "a", "r", "t">>, <<"c", "o", "m", "f", "o", "r", "t", "a", "b", "l", "e", " ", "w", "i", "t", "h">> >>

no_keywords ==
    << <<"r", "e", "q", "u", "i", "r", "e", " ", "s", "p", "o", "n", "s", "o", "r", "s", "h", "i", "p">>, <<"n", "e", "e", "d", " ", "v", "i", "s", "a">>, <<"c", "r", "i", "m", "i", "n", "a", "l", " ", "r", "e", "c", "o", "r", "d">>, <<"b", "e", "e", "n", " ", "t", "e", "r", "m", "i", "n", "a", "t", "e", "d">> >>

AnyKeyword(keywords, text) == \E k \in 1..Len(keywords) : IsSubstr(keywords[k], text)

\* the scan of the default-no phrases placed first
handle_yes_no_question_no_first(question_text) ==
    LET question_lower == Lower(question_text)
    IN  IF AnyKeyword(no_keywords, question_lower) THEN FALSE
        ELSE TRUE

handle_yes_no_question(question_text) ==
    LET question_lower == Lower(question_text)
    IN  IF AnyKeyword(yes_keywords, question_lower) THEN TRUE
        ELSE IF AnyKeyword(no_keywords, question_lower) THEN FALSE
        ELSE TRUE

\* ------------------------------------------------------------------------
\* Bounds and the inputs the page-automation layer can hand back
\* ------------------------------------------------------------------------

\* most controls of one kind that find_elements returns for a page
MaxControls == 1

\* the loop test written with <= instead of <
max_pages_one_more == 10 + 1

max_pages == 10

Profiles ==
    { [first_name |-> <<"A", "n", "n">>],
      [first_name |-> <<"B", "o">>, auto_submit |-> TRUE, work_authorized |-> TRUE,
       phone |-> <<"(", "2", "1", "2", ")", " ", "5", "5", "5", "-", "0", "1", "0", "0">>, python_years |-> 4, total_years_experience |-> 6],
      [first_name |-> <<"C", "y">>, auto_submit |-> FALSE, work_authorized |-> FALSE,
       veteran |-> TRUE] }

NavControls == {"continue", "review", "submit"}

\* a text input: whether it already holds a value, whether it has an id,
\* and the text of the label for that id (NoElement: no such label)
NoElement == <<"<none>">>

TextLabels == { NoElement, <<"P", "h", "o", "n", "e">>, <<"Y", "e", "a", "r", "s", " ", "o", "f", " ", "P", "y", "t", "h", "o", "n", " ", "e", "x", "p", "e", "r", "i", "e", "n", "c", "e">>, <<"F", "i", "r", "s", "t", " ", "n", "a", "m", "e">> }

TextControls == [held : BOOLEAN, has_id : BOOLEAN, label : TextLabels]

OptionLists ==
    { << <<"Y", "e", "s">>, <<"N", "o">> >>,
      << <<"Y", "e", "s">>, <<"N", "o">>, <<"P", "r", "e", "f", "e", "r", " ", "n", "o", "t", " ", "t", "o", " ", "s", "a", "y">> >> }

DropdownLabels == { NoElement, <<"D", "i", "s", "a", "b", "i", "l", "i", "t", "y", " ", "s", "t", "a", "t", "u", "s">>, <<"A", "r", "e", " ", "y", "o", "u", " ", "a", "u", "t", "h", "o", "r", "i", "z", "e", "d", " ", "t", "o", " ", "w", "o", "r", "k", "?">>, <<"C", "o", "u", "n", "t", "r", "y">> }

DropdownControls == [held : BOOLEAN, has_id : BOOLEAN, label : DropdownLabels, options : OptionLists]

RadioLegends == { NoElement, <<"W", "i", "l", "l", "i", "n", "g", " ", "t", "o", " ", "r", "e", "l", "o", "c", "a", "t", "e", "?">>, <<"F", "a", "v", "o", "u", "r", "i", "t", "e", " ", "c", "o", "l", "o", "u", "r">> }

RadioControls == [held : BOOLEAN, legend : RadioLegends, options : OptionLists]

\* ------------------------------------------------------------------------
\* State of one fill_linkedin_easy_apply(job_url) call
\* ------------------------------------------------------------------------

VARIABLES
    profile,      \* self.profile
    pc,           \* position in fill_linkedin_easy_apply
    page_count,   \* page_count
    nav,          \* navigation controls on the page when its probes start
    seenNav,      \* navigation controls present on some earlier page
    probed,       \* navigation probes made in this iteration, in order
    clicked,      \* navigation controls clicked in this iteration, in order
    issued,       \* navigation commands issued so far, per kind
    n,            \* length of the control list being iterated
    idx,          \* 1-based position in that list
    pageActs,     \* send_keys / select_by_index / radio clicks issued on this page
    allHeld,      \* every control processed on this page already held a value
    ctlFailed,    \* some control of this page raised inside its try block
    exc,          \* the exception that escaped to the outer handler ("" if none)
    result        \* the (success, status) pair returned

\* One call of an answer handler taken alone, and one pass over the form
\* controls of a page taken alone
VARIABLES
    in_label,     \* the label or question text handed to the handler
    in_options,   \* the option texts handed to the handler
    handler,      \* the handler that has been called ("" before the call)
    out_category, \* the branch of the text-field chain that was taken
    out_action,   \* what the handler sent to the control
    out_answer,   \* what handle_yes_no_question returned
    doc,          \* kinds of the form controls of the page, in document order
    visited,      \* document positions of the controls handled so far, in order
    element       \* the form control handed to the body of its loop

\* The job monitors around the application flow (job_monitor.py and
\* job_monitor_integrated.py)
VARIABLES
    config,           \* self.config, the keys that are read
    jobs_found,       \* self.jobs_found: the job_data dicts, in order
    jobs_applied,     \* self.jobs_applied: positions in jobs_found of its dicts
    searches,         \* search_linkedin_jobs calls begun so far
    attempts,         \* urls handed to an application attempt, in order
    contact_searches, \* urls handed to find_and_save_networking_contacts
    skipped           \* cards passed over because their url was tracked

handlerVars == << in_label, in_options, handler, out_category, out_action, out_answer, element >>

passVars == << doc, visited >>

monitorVars == << config, jobs_found, jobs_applied, searches, attempts, contact_searches, skipped >>

vars == << profile, pc, page_count, nav, seenNav, probed, clicked, issued,
           n, idx, pageActs, allHeld, ctlFailed, exc, result,
           in_label, in_options, handler, out_category, out_action, out_answer, doc, visited,
           element, config, jobs_found, jobs_applied, searches, attempts, contact_searches,
           skipped >>

\* no control in hand
NoControl == [kind |-> "none"]

\* a monitor that has not been constructed
MonitorIdle ==
    /\ config = [auto_apply |-> FALSE]
    /\ jobs_found = <<>>
    /\ jobs_applied = <<>>
    /\ searches = 0
    /\ attempts = <<>>
    /\ contact_searches = <<>>
    /\ skipped = 0

NoResult == [success |-> FALSE, status |-> "", detail |-> ""]

Applied == [success |-> TRUE, status |-> "Applied", detail |-> ""]

ReadyToSubmit ==
    [success |-> TRUE, status |-> "Ready to Submit - Confirmation Required", detail |-> ""]

MaxPagesReached == [success |-> FALSE, status |-> "Max Pages Reached", detail |-> ""]

\* the handler returning a bare "Error" without str(e)
ErrorResultNoDetail(e) == [success |-> FALSE, status |-> "Error", detail |-> ""]

\* (False, f"Error: {str(e)}")
ErrorResult(e) == [success |-> FALSE, status |-> "Error", detail |-> e]

Init ==
    /\ profile \in Profiles
    /\ pc = "start"
    /\ page_count = 0
    /\ nav = {}
    /\ seenNav = {}
    /\ probed = <<>>
    /\ clicked = <<>>
    /\ issued = [get |-> 0, easy_apply |-> 0, continue |-> 0, review |-> 0, submit |-> 0]
    /\ n = 0
    /\ idx = 0
    /\ pageActs = 0
    /\ allHeld = TRUE
    /\ ctlFailed = FALSE
    /\ exc = ""
    /\ result = NoResult
    /\ in_label = <<>>
    /\ in_options = <<>>
    /\ handler = ""
    /\ out_category = ""
    /\ out_action = Skip
    /\ out_answer = TRUE
    /\ doc = <<>>
    /\ visited = <<>>
    /\ element = NoControl
    /\ MonitorIdle

\* no outer handler: the exception leaves the function
RaiseToCaller(e) ==
    /\ pc' = "raised"
    /\ exc' = e

\* An exception leaves the try body: control moves to the except clause.
Raise(e) ==
    /\ pc' = "except"
    /\ exc' = e

\* return from the function
Return(r) ==
    /\ pc' = "done"
    /\ result' = r

\* Lines 248-260: load the job page, wait for the Easy Apply button, click it.
Start ==
    /\ pc = "start"
    /\ \E fault \in {"none", "get", "wait", "click"} :
         /\ issued' = [issued EXCEPT !.get = 1,
                                     !.easy_apply = IF fault \in {"none", "click"} THEN 1 ELSE 0]
         /\ IF fault = "none"
            THEN pc' = "loop" /\ exc' = exc
            ELSE Raise(fault)
    /\ UNCHANGED << profile, page_count, nav, seenNav, probed, clicked,
                    n, idx, pageActs, allHeld, ctlFailed, result >>
    /\ UNCHANGED << handlerVars, passVars, monitorVars >>

\* Lines 262-283 and 392-393: the loop test; on a new iteration the counter
\* is incremented, the two file inputs are looked up (an upload changes the
\* page only, and upload_resume / upload_cover_letter swallow their own
\* failures; a failing lookup or attribute read escapes) and the text inputs
\* of the page are collected.  When the test fails the function returns.
BeginPage ==
    /\ pc = "loop"
    /\ IF page_count < max_pages
       THEN \E fault \in {"none", "resume_input", "cover_input", "find_text_fields"},
               cnt \in 0..MaxControls :
              /\ page_count' = page_count + 1
              /\ seenNav' = seenNav \cup nav
              /\ nav' = {}
              /\ probed' = <<>>
              /\ clicked' = <<>>
              /\ pageActs' = 0
              /\ allHeld' = TRUE
              /\ ctlFailed' = FALSE
              /\ IF fault = "none"
                 THEN /\ n' = cnt
                      /\ idx' = IF cnt = 0 THEN 0 ELSE 1
                      /\ pc' = IF cnt = 0 THEN "find_dropdowns" ELSE "text"
                      /\ exc' = exc
                 ELSE /\ n' = 0
                      /\ idx' = 0
                      /\ Raise(fault)
              /\ UNCHANGED result
       ELSE /\ Return(MaxPagesReached)
            /\ UNCHANGED << page_count, nav, seenNav, probed, clicked, n, idx,
                            pageActs, allHeld, ctlFailed, exc >>
    /\ UNCHANGED << profile, issued >>
    /\ UNCHANGED << handlerVars, passVars, monitorVars >>

\* the `for' statement of a control loop: next control, or the code after it
Advance(after) ==
    IF idx < n
    THEN pc' = pc /\ idx' = idx + 1 /\ n' = n
    ELSE pc' = after /\ idx' = 0 /\ n' = 0

\* a control loop without its try block: a failing control ends the pass
ControlDoneUncaught(failed, after) ==
    IF failed
    THEN pc' = "except" /\ exc' = "control" /\ idx' = idx /\ n' = n
    ELSE Advance(after) /\ exc' = exc

\* Lines 315-317, 335-337, 349-350: the body of each control loop is one
\* try block whose `except Exception' continues with the next control.
ControlDone(failed, after) ==
    /\ Advance(after)
    /\ exc' = exc

\* the label found by whatever is near the input, its id not needed
TextFieldBodyLabelWithoutId(p, field, fault) ==
    LET label_text ==
            IF field.label # NoElement /\ fault # "label"
            THEN Lower(field.label) ELSE <<>>
        act == IF fault = "get_attribute" \/ field.held THEN Skip
               ELSE TextFieldAction(p, label_text, fault)
    IN  [act |-> act,
         failed |-> \/ fault = "get_attribute"
                    \/ fault = "label" /\ ~field.held
                    \/ fault \in {"clear", "send_keys"} /\ act.kind = "SetValue"]

\* Lines 285-317, the try block of the text loop: a filled input is passed
\* over; the label text is that of label[for=id], lower-cased, and is empty
\* when the input has no id or no such label exists (bare except, lines
\* 293-297); then the if/elif chain.  What is sent, and whether the block
\* raised.
TextFieldBody(p, field, fault) ==
    LET label_text ==
            IF field.has_id /\ field.label # NoElement /\ fault # "label"
            THEN Lower(field.label) ELSE <<>>
        act == IF fault = "get_attribute" \/ field.held THEN Skip
               ELSE TextFieldAction(p, label_text, fault)
    IN  [act |-> act,
         failed |-> \/ fault = "get_attribute"
                    \/ fault = "label" /\ ~field.held /\ field.has_id
                    \/ fault \in {"clear", "send_keys"} /\ act.kind = "SetValue"]

\* Lines 322-337, the try block of the dropdown loop
DropdownBody(p, dropdown, fault) ==
    LET label_text ==
            IF dropdown.has_id /\ dropdown.label # NoElement /\ fault # "label"
            THEN dropdown.label ELSE <<>>
        act == IF fault = "get_attribute" THEN Skip
               ELSE handle_dropdown(p, dropdown.options, label_text, fault)
    IN  [act |-> act,
         failed |-> \/ fault \in {"get_attribute", "select"}
                    \/ fault = "label" /\ dropdown.has_id
                    \/ fault = "select_by_index" /\ act.kind = "SelectOption"]

\* Lines 342-350, the try block of the radio loop: a fieldset without a
\* legend raises NoSuchElementException at line 343 and is passed over
RadioGroupBody(p, group, fault) ==
    LET act == IF group.legend = NoElement \/ fault = "legend" THEN Skip
               ELSE handle_radio_buttons(p, group.legend, group.options)
    IN  [act |-> act,
         failed |-> \/ group.legend = NoElement
                    \/ fault = "legend"
                    \/ fault = "click" /\ act.kind = "Click"]

\* the automation failures each kind of control can meet
TextFaults == {"none", "get_attribute", "label", "clear", "send_keys"}

DropdownFaults == {"none", "get_attribute", "label", "select", "select_by_index"}

RadioFaults == {"none", "legend", "click"}

\* Lines 284-317: one text input.
TextField ==
    /\ pc = "text"
    /\ \E ctl \in TextControls, fault \in TextFaults :
         LET body == TextFieldBody(profile, ctl, fault)
         IN  /\ pageActs' = pageActs + (IF body.act.sent THEN 1 ELSE 0)
             /\ allHeld' = (allHeld /\ ctl.held)
             /\ ctlFailed' = (ctlFailed \/ body.failed)
             /\ ControlDone(body.failed, "find_dropdowns")
    /\ UNCHANGED << profile, page_count, nav, seenNav, probed, clicked, issued,
                    result >>
    /\ UNCHANGED << handlerVars, passVars, monitorVars >>

\* Line 320: collect the <select> elements.
FindDropdowns ==
    /\ pc = "find_dropdowns"
    /\ \E fault \in {"none", "find_dropdowns"}, cnt \in 0..MaxControls :
         IF fault = "none"
         THEN /\ n' = cnt
              /\ idx' = IF cnt = 0 THEN 0 ELSE 1
              /\ pc' = IF cnt = 0 THEN "find_radio_groups" ELSE "dropdown"
              /\ exc' = exc
         ELSE /\ n' = 0
              /\ idx' = 0
              /\ Raise(fault)
    /\ UNCHANGED << profile, page_count, nav, seenNav, probed, clicked, issued,
                    pageActs, allHeld, ctlFailed, result >>
    /\ UNCHANGED << handlerVars, passVars, monitorVars >>

\* Lines 321-337: one dropdown.  Its current selection is never read.
Dropdown ==
    /\ pc = "dropdown"
    /\ \E ctl \in DropdownControls, fault \in DropdownFaults :
         LET body == DropdownBody(profile, ctl, fault)
         IN  /\ pageActs' = pageActs + (IF body.act.sent THEN 1 ELSE 0)
             /\ allHeld' = (allHeld /\ ctl.held)
             /\ ctlFailed' = (ctlFailed \/ body.failed)
             /\ ControlDone(body.failed, "find_radio_groups")
    /\ UNCHANGED << profile, page_count, nav, seenNav, probed, clicked, issued,
                    result >>
    /\ UNCHANGED << handlerVars, passVars, monitorVars >>

\* Line 340: collect the <fieldset> elements.
FindRadioGroups ==
    /\ pc = "find_radio_groups"
    /\ \E fault \in {"none", "find_radio_groups"}, cnt \in 0..MaxControls :
         IF fault = "none"
         THEN /\ n' = cnt
              /\ idx' = IF cnt = 0 THEN 0 ELSE 1
              /\ pc' = IF cnt = 0 THEN "probe_next" ELSE "radio"
              /\ exc' = exc
         ELSE /\ n' = 0
              /\ idx' = 0
              /\ Raise(fault)
    /\ UNCHANGED << profile, page_count, nav, seenNav, probed, clicked, issued,
                    pageActs, allHeld, ctlFailed, result >>
    /\ UNCHANGED << handlerVars, passVars, monitorVars >>

\* Lines 341-350: one radio group.  Whether one of its buttons is already
\* checked is never read.
RadioGroup ==
    /\ pc = "radio"
    /\ \E ctl \in RadioControls, fault \in RadioFaults :
         LET body == RadioGroupBody(profile, ctl, fault)
         IN  /\ pageActs' = pageActs + (IF body.act.sent THEN 1 ELSE 0)
             /\ allHeld' = (allHeld /\ ctl.held)
             /\ ctlFailed' = (ctlFailed \/ body.failed)
             /\ ControlDone(body.failed, "probe_next")
    /\ UNCHANGED << profile, page_count, nav, seenNav, probed, clicked, issued,
                    result >>
    /\ UNCHANGED << handlerVars, passVars, monitorVars >>

\* the review block placed above the continue/next block
ProbeOrderReviewFirst == << "review", "continue", "submit" >>

\* Lines 352-387: the three probes, top to bottom, and the position of each
ProbeOrder == << "continue", "review", "submit" >>

ProbePc == << "probe_next", "probe_review", "probe_submit" >>

\* auto_submit defaulting to True when the profile lacks the key
auto_submit_default_true == ProfileGet(profile, "auto_submit", TRUE)

\* the submit branch taken without consulting the profile
auto_submit_ignored == TRUE

\* Line 377: self.profile.get('auto_submit', False)
auto_submit == ProfileGet(profile, "auto_submit", FALSE)

\* the click without the `continue' after it: the probes below it still run
ClickNavWithoutContinue(control, fault, after) ==
    /\ issued' = [issued EXCEPT ![control] = @ + 1]
    /\ clicked' = Append(clicked, control)
    /\ IF fault = "click" THEN Raise("click_" \o control)
       ELSE /\ exc' = exc
            /\ pc' = IF control = "continue" THEN "probe_review"
                     ELSE IF control = "review" THEN "probe_submit" ELSE after

\* find_element for a navigation control and click() sit in one try whose
\* except clause catches NoSuchElementException only: any other exception
\* of find_element, and every exception of click(), escapes.
ClickNav(control, fault, after) ==
    /\ issued' = [issued EXCEPT ![control] = @ + 1]
    /\ clicked' = Append(clicked, control)
    /\ IF fault = "click" THEN Raise("click_" \o control) ELSE exc' = exc /\ pc' = after

\* The k-th probe on a page showing page_nav.  A continue/next or review
\* control is clicked and the loop continues; a submit control ends the
\* call, clicked only under auto_submit; a control that is not there leads
\* to the next probe, and after the last probe to `break' and the
\* statements after the loop (lines 389-393).
NavProbe(k, page_nav, fault) ==
    LET control == ProbeOrder[k]
    IN  /\ probed' = Append(probed, control)
        /\ IF fault = "find"
           THEN Raise("find_" \o control) /\ UNCHANGED << issued, clicked, result >>
           ELSE IF control \in page_nav
                THEN IF control = "submit"
                     THEN IF auto_submit
                          THEN /\ ClickNav(control, fault, "done")
                               /\ result' = IF fault = "none" THEN Applied ELSE result
                          ELSE Return(ReadyToSubmit) /\ UNCHANGED << issued, clicked, exc >>
                     ELSE ClickNav(control, fault, "loop") /\ UNCHANGED result
                ELSE IF k < Len(ProbeOrder)
                     THEN pc' = ProbePc[k + 1] /\ UNCHANGED << issued, clicked, exc, result >>
                     ELSE Return(MaxPagesReached) /\ UNCHANGED << issued, clicked, exc >>

\* Lines 352-360: first probe, the first look at the page's navigation controls.
ProbeNext ==
    /\ pc = ProbePc[1]
    /\ \E page_nav \in SUBSET NavControls, fault \in {"none", "find", "click"} :
         /\ nav' = page_nav
         /\ NavProbe(1, page_nav, fault)
    /\ UNCHANGED << profile, page_count, seenNav, n, idx, pageActs, allHeld, ctlFailed >>
    /\ UNCHANGED << handlerVars, passVars, monitorVars >>

\* Lines 362-370: second probe.
ProbeReview ==
    /\ pc = ProbePc[2]
    /\ \E fault \in {"none", "find", "click"} : NavProbe(2, nav, fault)
    /\ UNCHANGED << profile, page_count, nav, seenNav, n, idx, pageActs, allHeld, ctlFailed >>
    /\ UNCHANGED << handlerVars, passVars, monitorVars >>

\* Lines 372-393: third probe.
ProbeSubmit ==
    /\ pc = ProbePc[3]
    /\ \E fault \in {"none", "find", "click"} : NavProbe(3, nav, fault)
    /\ UNCHANGED << profile, page_count, nav, seenNav, n, idx, pageActs, allHeld, ctlFailed >>
    /\ UNCHANGED << handlerVars, passVars, monitorVars >>

\* Lines 395-397: the outer `except Exception' turns the exception into the
\* returned pair.
Except ==
    /\ pc = "except"
    /\ Return(ErrorResult(exc))
    /\ UNCHANGED << profile, page_count, nav, seenNav, probed, clicked, issued,
                    n, idx, pageActs, allHeld, ctlFailed, exc >>
    /\ UNCHANGED << handlerVars, passVars, monitorVars >>

Next ==
    \/ Start
    \/ BeginPage
    \/ TextField
    \/ FindDropdowns
    \/ Dropdown
    \/ FindRadioGroups
    \/ RadioGroup
    \/ ProbeNext
    \/ ProbeReview
    \/ ProbeSubmit
    \/ Except

Spec == Init /\ [][Next]_vars

\* Every automation call returns or raises, so the function keeps stepping.
FairSpec == Spec /\ WF_vars(Next)

TypeOK ==
    /\ profile \in Profiles
    /\ page_count \in 0..max_pages
    /\ nav \subseteq NavControls
    /\ idx \in 0..n
    /\ pageActs \in 0..(3 * (MaxControls + 1))

\* ------------------------------------------------------------------------
\* Properties of fill_linkedin_easy_apply
\* ------------------------------------------------------------------------

\* what the pages already left showed, taken together, and what the page
\* being probed shows
FlowShows(earlier, last) == seenNav = earlier /\ nav = last

\* C1: when no automation call raises and every page shows a continue/next
\* control and nothing else, the call returns (False, "Max Pages Reached")
\* with the page counter at 10, after one page load, one Easy Apply click and
\* exactly 10 continue clicks: nothing is clicked or loaded once the tenth
\* page has been left.
C1_CeilingAtTenPages ==
    (pc = "done" /\ exc = "" /\ seenNav \subseteq {"continue"} /\ nav = {"continue"})
        => /\ result = MaxPagesReached
           /\ page_count = 10
           /\ issued = [get |-> 1, easy_apply |-> 1, continue |-> 10, review |-> 0, submit |-> 0]
           /\ clicked = << "continue" >>

C1_Witness ==
    /\ pc = "done"
    /\ exc = ""
    /\ seenNav = {"continue"}
    /\ nav = {"continue"}
    /\ issued.continue = 10
    /\ result = MaxPagesReached

\* C2: a page on which none of the three navigation controls is found ends
\* the call with a completion outcome: success, and a status that is neither
\* "Max Pages Reached" nor an error.
C2_NoControlIsCompletion ==
    (pc = "done" /\ exc = "" /\ nav = {} /\ probed = << "continue", "review", "submit" >>)
        => /\ result.success
           /\ result.status # MaxPagesReached.status
           /\ result.status # "Error"

\* C3: pages 1 and 2 show only a continue control, page 3 shows only a submit
\* control, auto_submit is false or absent and no automation call raises:
\* the call returns success with the ready-to-submit status while on page 3,
\* having clicked continue exactly twice and submit never.
C3_ThreePageFlow ==
    (/\ pc = "done"
     /\ exc = ""
     /\ page_count = 3
     /\ FlowShows({"continue"}, {"submit"})
     /\ ~ProfileGet(profile, "auto_submit", FALSE))
        => /\ result = ReadyToSubmit
           /\ result.success
           /\ issued.continue = 2
           /\ issued.review = 0
           /\ issued.submit = 0
           /\ clicked = <<>>

C3_Witness ==
    /\ pc = "done"
    /\ page_count = 3
    /\ FlowShows({"continue"}, {"submit"})
    /\ "auto_submit" \notin DOMAIN profile
    /\ result = ReadyToSubmit
    /\ issued.continue = 2

\* C4: the submit control is clicked at most once and only when the profile
\* has auto_submit true.  When the submit probe finds the control, a true
\* auto_submit gives one submit click and, the click returning, the outcome
\* Applied; a false or missing auto_submit gives the ready-to-submit outcome
\* and no submit click.
C4_SubmitOnlyWhenAutoSubmit ==
    /\ issued.submit > 0 => ("auto_submit" \in DOMAIN profile /\ profile["auto_submit"] = TRUE)
    /\ issued.submit <= 1
    /\ (/\ pc \in {"done", "except"}
        /\ probed = << "continue", "review", "submit" >>
        /\ "submit" \in nav
        /\ exc # "find_submit")
           => IF "auto_submit" \in DOMAIN profile /\ profile["auto_submit"] = TRUE
              THEN /\ issued.submit = 1
                   /\ clicked = << "submit" >>
                   /\ (exc = "" => pc = "done" /\ result = Applied)
              ELSE /\ issued.submit = 0
                   /\ clicked = <<>>
                   /\ pc = "done"
                   /\ result = ReadyToSubmit

C4_Witness ==
    /\ pc = "done"
    /\ nav = {"submit"}
    /\ "auto_submit" \in DOMAIN profile
    /\ profile["auto_submit"] = TRUE
    /\ issued.submit = 1
    /\ result = Applied

IsPrefix(s, t) == Len(s) <= Len(t) /\ SubSeq(t, 1, Len(s)) = s

\* C5: on every page the probes run in the order continue/next, review,
\* submit, and stop at the first control found, which is the only one acted
\* on: a page showing a continue control gets that control clicked and
\* review and submit are not even probed, whatever else the page shows; a
\* page showing review (and maybe submit) but no continue gets review
\* clicked and submit is not probed.
C5_FirstFoundDecides ==
    /\ IsPrefix(probed, << "continue", "review", "submit" >>)
    /\ Len(clicked) <= 1
    /\ (/\ pc \in {"loop", "done", "except"}
        /\ probed # <<>>
        /\ exc \notin {"find_continue", "find_review", "find_submit"})
           => /\ "continue" \in nav
                   => probed = << "continue" >> /\ clicked = << "continue" >>
              /\ ("continue" \notin nav /\ "review" \in nav)
                   => probed = << "continue", "review" >> /\ clicked = << "review" >>

C5_Witness ==
    /\ pc = "loop"
    /\ nav = {"continue", "submit"}
    /\ clicked = << "continue" >>
    /\ issued.submit = 0

IsTerminalOutcome(r) ==
    \/ r \in {Applied, ReadyToSubmit, MaxPagesReached}
    \/ r.success = FALSE /\ r.status = "Error" /\ r.detail # ""

\* C6: whatever the page-automation layer returns or raises, the call comes
\* to its return, and what it returns is one of the terminal outcomes:
\* Applied, ready-to-submit, max-pages-reached or an error with its detail
\* (the code has no value of its own for Done).
C6_AlwaysTerminates == <>[](pc = "done" /\ IsTerminalOutcome(result))

C6_Witness ==
    /\ pc = "done"
    /\ page_count > 1
    /\ ctlFailed
    /\ IsTerminalOutcome(result)

\* C7: a navigation control that is found but whose click fails counts as
\* absent, so the call never returns an error caused by that click.
C7_FailedClickIsAbsence ==
    ~(/\ pc = "done"
      /\ result.status = "Error"
      /\ result.detail \in {"click_continue", "click_review", "click_submit"})

\* C8: on a page where every control already holds a value, the pass over
\* the form issues no send_keys, no select_by_index and no radio click.
C8_FilledPageIsLeftAlone == allHeld => pageActs = 0

ControlPcs == {"text", "dropdown", "radio"}

AfterControls(at) ==
    CASE at = "text" -> "find_dropdowns"
      [] at = "dropdown" -> "find_radio_groups"
      [] at = "radio" -> "probe_next"

ControlStepStaysInside ==
    pc \in ControlPcs =>
        /\ exc' = ""
        /\ result' = NoResult
        /\ IF idx < n
           THEN pc' = pc /\ idx' = idx + 1 /\ n' = n
           ELSE pc' = AfterControls(pc)

\* C9: the step that handles one text field, dropdown or radio group never
\* leaves the try body of the call, whether or not the control failed: the
\* next control of the list is handled next, after the last control the code
\* following that loop runs (the remaining kinds of control, then the
\* navigation probes), and no error outcome is produced.
C9_ControlFaultIsolated == [][ControlStepStaysInside]_vars

C9_Witness ==
    /\ ctlFailed
    /\ pc = "probe_next"
    /\ pageActs > 0

\* C10: an exception that escapes the per-control try blocks, on any page
\* or before the first page, never leaves the function: the call returns
\* failure with status Error and the detail of that exception.
C10_EscapedErrorIsReturned ==
    /\ pc \in {"start", "loop", "text", "find_dropdowns", "dropdown", "find_radio_groups",
               "radio", "probe_next", "probe_review", "probe_submit", "except", "done"}
    /\ exc # "" => pc \in {"except", "done"}
    /\ (pc = "done" /\ exc # "")
          => result = [success |-> FALSE, status |-> "Error", detail |-> exc]
    /\ (pc = "done" /\ exc = "") => result.status # "Error"

C10_Witness ==
    /\ pc = "done"
    /\ exc = "wait"
    /\ page_count = 0
    /\ result = [success |-> FALSE, status |-> "Error", detail |-> "wait"]

\* ------------------------------------------------------------------------
\* The answer handlers called on their own
\* ------------------------------------------------------------------------

HandlerProfiles ==
    { [first_name |-> <<"A", "n", "n">>],
      [first_name |-> <<"F", "a", "y">>, gender_disclosure |-> TRUE, gender |-> <<>>,
       ethnicity_disclosure |-> TRUE],
      [first_name |-> <<"B", "o">>, phone |-> <<"(", "2", "1", "2", ")", " ", "5", "5", "5", "-", "0", "1", "0", "0">>, python_years |-> 4,
       total_years_experience |-> 6, work_authorized |-> TRUE,
       linkedin_url |-> <<"i", "n", "/", "b", "o">>, github_url |-> <<"g", "h", "/", "b", "o">>,
       gender_disclosure |-> TRUE, gender |-> <<"F", "e", "m", "a", "l", "e">>,
       ethnicity_disclosure |-> TRUE, ethnicity |-> <<"A", "s", "i", "a", "n">>, veteran |-> FALSE],
      [first_name |-> <<"C", "y">>, phone |-> <<"+", "1", " ", "2", "1", "2", ".", "5", "5", "5", ".", "0", "1", "0", "0", " ", "x", "7">>, total_years_experience |-> 6,
       work_authorized |-> FALSE, gender_disclosure |-> FALSE, gender |-> <<"F", "e", "m", "a", "l", "e">>,
       ethnicity_disclosure |-> FALSE, ethnicity |-> <<"A", "s", "i", "a", "n">>, veteran |-> TRUE,
       visa_status |-> <<"H", "1", "B">>, open_to_remote |-> FALSE],
      [first_name |-> <<"D", "i">>, work_authorized |-> FALSE, gender_disclosure |-> TRUE,
       ethnicity_disclosure |-> TRUE, ethnicity |-> <<"A", "s", "i", "a", "n">>, education_level |-> <<"M", "a", "s", "t", "e", "r">>],
      [first_name |-> <<"E", "d">>, gender_disclosure |-> FALSE, gender |-> <<"M", "a", "l", "e">>,
       ethnicity_disclosure |-> TRUE, ethnicity |-> <<"W", "h", "i", "t", "e">>, finance_years |-> 12] }

HandlerLabels ==
    { <<>>,
      <<"G", "i", "t", "H", "u", "b", " ", "o", "r", " ", "L", "i", "n", "k", "e", "d", "I", "n", " ", "p", "r", "o", "f", "i", "l", "e">>,
      <<"P", "o", "r", "t", "f", "o", "l", "i", "o", " ", "w", "e", "b", "s", "i", "t", "e", " ", "(", "o", "r", " ", "G", "i", "t", "H", "u", "b", ")">>,
      <<"O", "p", "e", "n", " ", "t", "o", " ", "r", "e", "m", "o", "t", "e", " ", "w", "o", "r", "k", " ", "o", "r", " ", "r", "e", "l", "o", "c", "a", "t", "i", "o", "n", "?">>,
      <<"A", "r", "e", " ", "y", "o", "u", " ", "a", "u", "t", "h", "o", "r", "i", "z", "e", "d", " ", "t", "o", " ", "w", "o", "r", "k", " ", "a", "n", "d", " ", "w", "i", "l", "l", "i", "n", "g", " ", "t", "o", " ", "r", "e", "l", "o", "c", "a", "t", "e", "?">>,
      <<"W", "i", "l", "l", "i", "n", "g", " ", "t", "o", " ", "r", "e", "l", "o", "c", "a", "t", "e", "?">>,
      <<"P", "h", "o", "n", "e">>,
      <<"Y", "e", "a", "r", "s", " ", "o", "f", " ", "e", "x", "p", "e", "r", "i", "e", "n", "c", "e">>,
      <<"E", "X", "P", "E", "R", "I", "E", "N", "C", "E", " ", "(", "i", "n", " ", "y", "e", "a", "r", "s", ")">>,
      <<"W", "o", "r", "k", " ", "e", "x", "p", "e", "r", "i", "e", "n", "c", "e">>,
      <<"Y", "e", "a", "r", "s", " ", "o", "f", " ", "p", "h", "o", "n", "e", " ", "s", "u", "p", "p", "o", "r", "t", " ", "e", "x", "p", "e", "r", "i", "e", "n", "c", "e">>,
      <<"H", "o", "w", " ", "m", "a", "n", "y", " ", "y", "e", "a", "r", "s", " ", "o", "f", " ", "p", "y", "t", "h", "o", "n", " ", "e", "x", "p", "e", "r", "i", "e", "n", "c", "e", "?">>,
      <<"L", "i", "n", "k", "e", "d", "I", "n", " ", "o", "r", " ", "p", "h", "o", "n", "e">>,
      <<"H", "i", "g", "h", "e", "s", "t", " ", "d", "e", "g", "r", "e", "e">>,
      <<"A", "r", "e", " ", "y", "o", "u", " ", "a", "u", "t", "h", "o", "r", "i", "z", "e", "d", " ", "t", "o", " ", "w", "o", "r", "k", "?">>,
      <<"D", "o", " ", "y", "o", "u", " ", "r", "e", "q", "u", "i", "r", "e", " ", "v", "i", "s", "a", " ", "s", "p", "o", "n", "s", "o", "r", "s", "h", "i", "p", "?">>,
      <<"G", "e", "n", "d", "e", "r">>,
      <<"R", "a", "c", "e", "/", "E", "t", "h", "n", "i", "c", "i", "t", "y">>,
      <<"G", "e", "n", "d", "e", "r", " ", "a", "n", "d", " ", "e", "t", "h", "n", "i", "c", "i", "t", "y">>,
      <<"V", "e", "t", "e", "r", "a", "n", " ", "s", "t", "a", "t", "u", "s">>,
      <<"D", "i", "s", "a", "b", "i", "l", "i", "t", "y", " ", "s", "t", "a", "t", "u", "s">>,
      <<"A", "r", "e", " ", "y", "o", "u", " ", "l", "e", "g", "a", "l", "l", "y", " ", "a", "u", "t", "h", "o", "r", "i", "z", "e", "d", " ", "t", "o", " ", "w", "o", "r", "k", " ", "i", "n", " ", "t", "h", "i", "s", " ", "c", "o", "u", "n", "t", "r", "y", "?">>,
      <<"D", "o", " ", "y", "o", "u", " ", "e", "n", "j", "o", "y", " ", "p", "u", "z", "z", "l", "e", "s", "?">>,
      <<"A", "r", "e", " ", "y", "o", "u", " ", "a", "u", "t", "h", "o", "r", "i", "z", "e", "d", " ", "t", "o", " ", "w", "o", "r", "k", " ", "h", "e", "r", "e", " ", "o", "r", " ", "d", "o", " ", "y", "o", "u", " ", "r", "e", "q", "u", "i", "r", "e", " ", "s", "p", "o", "n", "s", "o", "r", "s", "h", "i", "p", "?">>,
      <<"D", "o", " ", "y", "o", "u", " ", "h", "a", "v", "e", " ", "a", " ", "c", "r", "i", "m", "i", "n", "a", "l", " ", "r", "e", "c", "o", "r", "d", "?">> }

HandlerOptions ==
    { << >>,
      << <<"N", "o">>, <<"N", "o", "t", " ", "s", "u", "r", "e">> >>,
      << <<"Y", "e", "s">>, <<"N", "o">> >>,
      << <<"Y", "e", "s">>, <<"N", "o">>, <<"I", " ", "d", "o", "n", "'", "t", " ", "w", "i", "s", "h", " ", "t", "o", " ", "a", "n", "s", "w", "e", "r">> >>,
      << <<"Y", "e", "s">>, <<"N", "o">>, <<"P", "r", "e", "f", "e", "r", " ", "n", "o", "t", " ", "t", "o", " ", "s", "a", "y">> >>,
      << <<"M", "a", "l", "e">>, <<"F", "e", "m", "a", "l", "e">> >>,
      << <<"M", "a", "l", "e">>, <<"F", "e", "m", "a", "l", "e">>, <<"D", "e", "c", "l", "i", "n", "e", " ", "t", "o", " ", "a", "n", "s", "w", "e", "r">> >>,
      << <<"A", "s", "i", "a", "n">>, <<"W", "h", "i", "t", "e">>, <<"P", "r", "e", "f", "e", "r", " ", "n", "o", "t", " ", "t", "o", " ", "s", "a", "y">> >>,
      << <<"A", "s", "i", "a", "n">>, <<"W", "h", "i", "t", "e">> >>,
      << <<"O", "t", "h", "e", "r">>, <<"U", "S", " ", "C", "i", "t", "i", "z", "e", "n">> >> }

HandlerInit ==
    /\ profile \in HandlerProfiles
    /\ in_label \in HandlerLabels
    /\ in_options \in HandlerOptions
    /\ handler = ""
    /\ out_category = ""
    /\ out_action = Skip
    /\ out_answer = TRUE
    /\ pc = "handler"
    /\ page_count = 0
    /\ nav = {}
    /\ seenNav = {}
    /\ probed = <<>>
    /\ clicked = <<>>
    /\ issued = [get |-> 0, easy_apply |-> 0, continue |-> 0, review |-> 0, submit |-> 0]
    /\ n = 0
    /\ idx = 0
    /\ pageActs = 0
    /\ allHeld = TRUE
    /\ ctlFailed = FALSE
    /\ exc = ""
    /\ result = NoResult
    /\ doc = <<>>
    /\ visited = <<>>
    /\ element = NoControl
    /\ MonitorIdle

\* what a handler call leaves alone
HandlerFrame ==
    UNCHANGED << profile, pc, page_count, nav, seenNav, probed, clicked, issued, n, idx,
                 pageActs, allHeld, ctlFailed, exc, result, in_label, in_options, element,
                 passVars, monitorVars >>

\* Lines 295-313: the label of an empty text input, lower-cased, goes
\* through the if/elif chain.
CallTextField ==
    /\ handler = ""
    /\ handler' = "text_field"
    /\ out_category' = TextCategory(Lower(in_label))
    /\ out_action' = TextFieldAction(profile, Lower(in_label), "none")
    /\ UNCHANGED out_answer
    /\ HandlerFrame

\* Lines 35-40
CallPhoneNumber ==
    /\ handler = ""
    /\ handler' = "handle_phone_number"
    /\ out_action' = handle_phone_number(profile, "none")
    /\ UNCHANGED << out_category, out_answer >>
    /\ HandlerFrame

\* Lines 42-62
CallYearsExperience ==
    /\ handler = ""
    /\ handler' = "handle_years_experience"
    /\ out_action' = handle_years_experience(profile, in_label, "none")
    /\ UNCHANGED << out_category, out_answer >>
    /\ HandlerFrame

\* Lines 64-146
CallDropdown ==
    /\ handler = ""
    /\ handler' = "handle_dropdown"
    /\ out_action' = handle_dropdown(profile, in_options, in_label, "none")
    /\ UNCHANGED << out_category, out_answer >>
    /\ HandlerFrame

\* Lines 148-176
CallRadioButtons ==
    /\ handler = ""
    /\ handler' = "handle_radio_buttons"
    /\ out_action' = handle_radio_buttons(profile, in_label, in_options)
    /\ UNCHANGED << out_category, out_answer >>
    /\ HandlerFrame

\* Lines 178-210
CallYesNoQuestion ==
    /\ handler = ""
    /\ handler' = "handle_yes_no_question"
    /\ out_answer' = handle_yes_no_question(in_label)
    /\ UNCHANGED << out_category, out_action >>
    /\ HandlerFrame

HandlerNext ==
    \/ CallTextField
    \/ CallPhoneNumber
    \/ CallYearsExperience
    \/ CallDropdown
    \/ CallRadioButtons
    \/ CallYesNoQuestion

HandlerSpec == HandlerInit /\ [][HandlerNext]_vars

\* ------------------------------------------------------------------------
\* Properties of the answer handlers
\* ------------------------------------------------------------------------

\* the label handed to the handler contains the keyword, in any case
LabelHas(keyword) == IsSubstr(keyword, Lower(in_label))

\* C11 as stated: every label with both "year" and "experience" in it, in
\* any case and order, is handled as years-experience, and a label with
\* "experience" but no "year" never is.
C11_YearsExperienceConjunctive ==
    handler = "text_field" =>
        /\ (LabelHas(<<"y", "e", "a", "r">>) /\ LabelHas(<<"e", "x", "p", "e", "r", "i", "e", "n", "c", "e">>))
              => out_category = "years-experience"
        /\ (LabelHas(<<"e", "x", "p", "e", "r", "i", "e", "n", "c", "e">>) /\ ~LabelHas(<<"y", "e", "a", "r">>))
              => out_category # "years-experience"

\* C11 amended: a label with both "year" and "experience" in it and without
\* "phone" is handled as years-experience and gets a year count typed; with
\* "phone" in it the phone branch, tested first, takes it; a label with
\* "experience" but no "year" is never handled as years-experience.
C11_YearsExperienceUnlessPhone ==
    handler = "text_field" =>
        /\ (LabelHas(<<"y", "e", "a", "r">>) /\ LabelHas(<<"e", "x", "p", "e", "r", "i", "e", "n", "c", "e">>) /\ ~LabelHas(<<"p", "h", "o", "n", "e">>))
              => /\ out_category = "years-experience"
                 /\ out_action.kind = "SetValue"
                 /\ out_action.text \in {StrOfNat(y) : y \in 0..12}
        /\ (LabelHas(<<"y", "e", "a", "r">>) /\ LabelHas(<<"e", "x", "p", "e", "r", "i", "e", "n", "c", "e">>) /\ LabelHas(<<"p", "h", "o", "n", "e">>))
              => out_category = "phone"
        /\ (LabelHas(<<"e", "x", "p", "e", "r", "i", "e", "n", "c", "e">>) /\ ~LabelHas(<<"y", "e", "a", "r">>))
              => out_category # "years-experience"

C11_Witness ==
    /\ handler = "text_field"
    /\ in_label = <<"E", "X", "P", "E", "R", "I", "E", "N", "C", "E", " ", "(", "i", "n", " ", "y", "e", "a", "r", "s", ")">>
    /\ out_category = "years-experience"
    /\ out_action.text = <<"3">>

\* C12: handle_yes_no_question answers no to the visa sponsorship question,
\* yes to the legal authorization question and yes to the puzzles question.
C12_YesNoExamples ==
    handler = "handle_yes_no_question" =>
        /\ in_label = <<"D", "o", " ", "y", "o", "u", " ", "r", "e", "q", "u", "i", "r", "e", " ", "v", "i", "s", "a", " ", "s", "p", "o", "n", "s", "o", "r", "s", "h", "i", "p", "?">> => out_answer = FALSE
        /\ in_label = <<"A", "r", "e", " ", "y", "o", "u", " ", "l", "e", "g", "a", "l", "l", "y", " ", "a", "u", "t", "h", "o", "r", "i", "z", "e", "d", " ", "t", "o", " ", "w", "o", "r", "k", " ", "i", "n", " ", "t", "h", "i", "s", " ", "c", "o", "u", "n", "t", "r", "y", "?">> => out_answer = TRUE
        /\ in_label = <<"D", "o", " ", "y", "o", "u", " ", "e", "n", "j", "o", "y", " ", "p", "u", "z", "z", "l", "e", "s", "?">> => out_answer = TRUE

\* C13: the answer of handle_yes_no_question is yes when a default-yes
\* phrase occurs in the lower-cased question, otherwise no when a default-no
\* phrase occurs in it, otherwise yes; so a question with phrases of both
\* lists is answered yes, and the profile plays no part.
C13_YesNoPolicy ==
    handler = "handle_yes_no_question" =>
        LET yes == \/ LabelHas(<<"a", "u", "t", "h", "o", "r", "i", "z", "e", "d", " ", "t", "o", " ", "w", "o", "r", "k">>)
                   \/ LabelHas(<<"e", "l", "i", "g", "i", "b", "l", "e", " ", "t", "o", " ", "w", "o", "r", "k">>)
                   \/ LabelHas(<<"l", "e", "g", "a", "l", "l", "y", " ", "a", "u", "t", "h", "o", "r", "i", "z", "e", "d">>)
                   \/ LabelHas(<<"a", "b", "l", "e", " ", "t", "o", " ", "w", "o", "r", "k">>)
                   \/ LabelHas(<<"w", "i", "l", "l", "i", "n", "g", " ", "t", "o", " ", "r", "e", "l", "o", "c", "a", "t", "e">>)
                   \/ LabelHas(<<"a", "v", "a", "i", "l", "a", "b", "l", "e", " ", "t", "o", " ", "s", "t", "a", "r", "t">>)
                   \/ LabelHas(<<"c", "o", "m", "f", "o", "r", "t", "a", "b", "l", "e", " ", "w", "i", "t", "h">>)
            no  == \/ LabelHas(<<"r", "e", "q", "u", "i", "r", "e", " ", "s", "p", "o", "n", "s", "o", "r", "s", "h", "i", "p">>)
                   \/ LabelHas(<<"n", "e", "e", "d", " ", "v", "i", "s", "a">>)
                   \/ LabelHas(<<"c", "r", "i", "m", "i", "n", "a", "l", " ", "r", "e", "c", "o", "r", "d">>)
                   \/ LabelHas(<<"b", "e", "e", "n", " ", "t", "e", "r", "m", "i", "n", "a", "t", "e", "d">>)
        IN  out_answer = (yes \/ ~no)

C13_Witness ==
    /\ handler = "handle_yes_no_question"
    /\ LabelHas(<<"a", "u", "t", "h", "o", "r", "i", "z", "e", "d", " ", "t", "o", " ", "w", "o", "r", "k">>)
    /\ LabelHas(<<"r", "e", "q", "u", "i", "r", "e", " ", "s", "p", "o", "n", "s", "o", "r", "s", "h", "i", "p">>)
    /\ out_answer = TRUE

\* C14: for the python question, a profile with python_years 4 and
\* total_years_experience 6 gets "4" typed, and a profile with
\* total_years_experience 6 and no python_years gets "6" typed.
C14_SubDomainFallsBackToTotal ==
    (/\ handler = "handle_years_experience"
     /\ in_label = <<"H", "o", "w", " ", "m", "a", "n", "y", " ", "y", "e", "a", "r", "s", " ", "o", "f", " ", "p", "y", "t", "h", "o", "n", " ", "e", "x", "p", "e", "r", "i", "e", "n", "c", "e", "?">>
     /\ "total_years_experience" \in DOMAIN profile
     /\ profile["total_years_experience"] = 6)
        => out_action.text = IF "python_years" \in DOMAIN profile THEN <<"4">> ELSE <<"6">>

\* C15: a disability dropdown offering Yes / No / I don't wish to answer
\* gets index 2 selected, whatever the profile.
C15_DisabilitySelectsNoAnswer ==
    (/\ handler = "handle_dropdown"
     /\ in_label = <<"D", "i", "s", "a", "b", "i", "l", "i", "t", "y", " ", "s", "t", "a", "t", "u", "s">>
     /\ in_options = << <<"Y", "e", "s">>, <<"N", "o">>, <<"I", " ", "d", "o", "n", "'", "t", " ", "w", "i", "s", "h", " ", "t", "o", " ", "a", "n", "s", "w", "e", "r">> >>)
        => out_action.kind = "SelectOption" /\ out_action.index = 2

\* positions of the digits in a string
DigitPositions(s) == {k \in 1..Len(s) : \E d \in 0..9 : s[k] = StrOfNat(d)[1]}

\* C16: handle_phone_number sends to the field exactly the digits of the
\* profile's phone, in their order and nothing else, and the empty string
\* when the profile has no phone.
C16_PhoneDigitsOnly ==
    handler = "handle_phone_number" =>
        LET phone == IF "phone" \in DOMAIN profile THEN profile["phone"] ELSE <<>>
            digits == DigitPositions(phone)
            typed == out_action.text
        IN  /\ out_action.kind = "SetValue"
            /\ out_action.sent
            /\ Len(typed) = Cardinality(digits)
            /\ \A k \in 1..Len(typed) :
                  \E at \in digits : /\ typed[k] = phone[at]
                                     /\ Cardinality({b \in digits : b < at}) = k - 1
            /\ phone = <<"(", "2", "1", "2", ")", " ", "5", "5", "5", "-", "0", "1", "0", "0">> => typed = <<"2", "1", "2", "5", "5", "5", "0", "1", "0", "0">>

C16_Witness ==
    /\ handler = "handle_phone_number"
    /\ "phone" \in DOMAIN profile
    /\ profile["phone"] = <<"(", "2", "1", "2", ")", " ", "5", "5", "5", "-", "0", "1", "0", "0">>
    /\ out_action.text = <<"2", "1", "2", "5", "5", "5", "0", "1", "0", "0">>

\* C17: for a dropdown whose label contains "authorized" or "sponsorship"
\* and a profile with work_authorized false, nothing is selected, whatever
\* the options and whatever else the label contains.
C17_NotAuthorizedSelectsNothing ==
    (/\ handler = "handle_dropdown"
     /\ LabelHas(<<"a", "u", "t", "h", "o", "r", "i", "z", "e", "d">>) \/ LabelHas(<<"s", "p", "o", "n", "s", "o", "r", "s", "h", "i", "p">>)
     /\ ~LabelHas(<<"e", "d", "u", "c", "a", "t", "i", "o", "n">>) /\ ~LabelHas(<<"d", "e", "g", "r", "e", "e">>)
     /\ "work_authorized" \in DOMAIN profile
     /\ profile["work_authorized"] = FALSE)
        => out_action = Skip

\* the option handed to the handler at 1-based position k, lower-cased
OptionLower(k) == Lower(in_options[k])

\* the dropdown selected the first of the options at the positions `good',
\* and nothing when there is none
SelectedFirstOf(good) ==
    IF good = {} THEN out_action = Skip
    ELSE /\ out_action.kind = "SelectOption"
         /\ out_action.index + 1 \in good
         /\ \A j \in good : out_action.index + 1 <= j

DeclinePositions ==
    {k \in 1..Len(in_options) :
        IsSubstr(<<"p", "r", "e", "f", "e", "r", " ", "n", "o", "t">>, OptionLower(k)) \/ IsSubstr(<<"d", "e", "c", "l", "i", "n", "e">>, OptionLower(k))}

ValuePositions(key) ==
    LET value == IF key \in DOMAIN profile THEN Lower(profile[key]) ELSE <<>>
    IN  {k \in 1..Len(in_options) : IsSubstr(value, OptionLower(k))}

Disclosed(flag) == flag \in DOMAIN profile /\ profile[flag]

LabelAboveGender ==
    \/ LabelHas(<<"e", "d", "u", "c", "a", "t", "i", "o", "n">>) \/ LabelHas(<<"d", "e", "g", "r", "e", "e">>)
    \/ LabelHas(<<"a", "u", "t", "h", "o", "r", "i", "z", "e", "d">>) \/ LabelHas(<<"s", "p", "o", "n", "s", "o", "r", "s", "h", "i", "p">>)
    \/ LabelHas(<<"v", "i", "s", "a">>)

\* C18: on a gender dropdown, and on an ethnicity dropdown, with the
\* disclosure flag false or absent the first option containing "prefer not"
\* or "decline" is selected and nothing if there is none; with the flag true
\* the first option containing the lower-cased profile value is selected and
\* nothing if there is none.
C18_DisclosureGating ==
    handler = "handle_dropdown" =>
        /\ (LabelHas(<<"g", "e", "n", "d", "e", "r">>) /\ ~LabelAboveGender)
              => SelectedFirstOf(IF Disclosed("gender_disclosure")
                                 THEN ValuePositions("gender") ELSE DeclinePositions)
        /\ ((LabelHas(<<"r", "a", "c", "e">>) \/ LabelHas(<<"e", "t", "h", "n", "i", "c", "i", "t", "y">>)) /\ ~LabelHas(<<"g", "e", "n", "d", "e", "r">>) /\ ~LabelAboveGender)
              => SelectedFirstOf(IF Disclosed("ethnicity_disclosure")
                                 THEN ValuePositions("ethnicity") ELSE DeclinePositions)

\* whether the keywords of each category of handle_dropdown appear in the
\* label, in the order of priority
CategoryAsked ==
    << LabelHas(<<"e", "d", "u", "c", "a", "t", "i", "o", "n">>) \/ LabelHas(<<"d", "e", "g", "r", "e", "e">>),
       LabelHas(<<"a", "u", "t", "h", "o", "r", "i", "z", "e", "d">>) \/ LabelHas(<<"s", "p", "o", "n", "s", "o", "r", "s", "h", "i", "p">>),
       LabelHas(<<"v", "i", "s", "a">>),
       LabelHas(<<"g", "e", "n", "d", "e", "r">>),
       LabelHas(<<"r", "a", "c", "e">>) \/ LabelHas(<<"e", "t", "h", "n", "i", "c", "i", "t", "y">>),
       LabelHas(<<"v", "e", "t", "e", "r", "a", "n">>),
       LabelHas(<<"d", "i", "s", "a", "b", "i", "l", "i", "t", "y">>) \/ LabelHas(<<"d", "i", "s", "a", "b", "l", "e", "d">>) >>

\* what each category's policy selects on its own, 1-based, 0 for nothing
CategoryChoice ==
    LET options == [k \in 1..Len(in_options) |-> OptionLower(k)]
        q == Lower(in_label)
    IN  << EducationChoice(profile, options, q), WorkAuthChoice(profile, options, q),
           VisaChoice(profile, options, q), GenderChoice(profile, options, q),
           EthnicityChoice(profile, options, q), VeteranChoice(profile, options, q),
           DisabilityChoice(profile, options, q) >>

\* C19: handle_dropdown applies the policy of the highest-priority category
\* whose keywords appear in the label and of no other: when that policy
\* finds no option nothing is selected.
C19_OneCategoryPerControl ==
    handler = "handle_dropdown" =>
        LET asked == {c \in 1..7 : CategoryAsked[c]}
        IN  IF asked = {} THEN out_action = Skip
            ELSE LET top == CHOOSE c \in asked : \A d \in asked : c <= d
                 IN  IF CategoryChoice[top] = 0 THEN out_action = Skip
                     ELSE /\ out_action.kind = "SelectOption"
                          /\ out_action.index = CategoryChoice[top] - 1

\* ------------------------------------------------------------------------
\* One page pass of fill_linkedin_easy_apply over the controls of a page,
\* lines 282-350: three find_elements calls, each followed by its loop
\* ------------------------------------------------------------------------

\* most controls on the page
MaxDoc == 3

ControlKinds == {"text", "dropdown", "radio"}

\* the kinds of the page's controls, in document order
Docs == UNION {[1..len -> ControlKinds] : len \in 1..MaxDoc}

\* find_elements returns the controls matching one selector, in document
\* order: their positions in the document
RECURSIVE KindPositions(_, _)
KindPositions(d, kind) ==
    IF d = <<>> THEN <<>>
    ELSE LET before == KindPositions(SubSeq(d, 1, Len(d) - 1), kind)
         IN  IF d[Len(d)] = kind THEN Append(before, Len(d)) ELSE before

PassInit ==
    /\ doc \in Docs
    /\ visited = <<>>
    /\ pc = "text"
    /\ idx = 1
    /\ profile \in Profiles
    /\ page_count = 1
    /\ nav = {}
    /\ seenNav = {}
    /\ probed = <<>>
    /\ clicked = <<>>
    /\ issued = [get |-> 1, easy_apply |-> 1, continue |-> 0, review |-> 0, submit |-> 0]
    /\ n = 0
    /\ pageActs = 0
    /\ allHeld = TRUE
    /\ ctlFailed = FALSE
    /\ exc = ""
    /\ result = NoResult
    /\ in_label = <<>>
    /\ in_options = <<>>
    /\ handler = ""
    /\ out_category = ""
    /\ out_action = Skip
    /\ out_answer = TRUE
    /\ element = NoControl
    /\ MonitorIdle

PassFrame ==
    UNCHANGED << profile, page_count, nav, seenNav, probed, clicked, issued, n,
                 pageActs, allHeld, ctlFailed, exc, result, handlerVars, doc, monitorVars >>

\* one iteration of the loop over the controls of one kind
PassControl(kind) ==
    /\ pc = kind
    /\ idx <= Len(KindPositions(doc, kind))
    /\ visited' = Append(visited, KindPositions(doc, kind)[idx])
    /\ idx' = idx + 1
    /\ UNCHANGED pc
    /\ PassFrame

\* the loop over one kind is exhausted: the next statement runs
PassLoopEnd(kind, after) ==
    /\ pc = kind
    /\ idx > Len(KindPositions(doc, kind))
    /\ pc' = after
    /\ idx' = 1
    /\ UNCHANGED visited
    /\ PassFrame

\* Lines 284-317
PassTextField == PassControl("text")

\* Lines 319-320
PassFindDropdowns == PassLoopEnd("text", "dropdown")

\* Lines 321-337
PassDropdown == PassControl("dropdown")

\* Lines 339-340
PassFindRadioGroups == PassLoopEnd("dropdown", "radio")

\* Lines 341-350
PassRadioGroup == PassControl("radio")

\* Line 352: the probes for the navigation controls begin
PassProbe == PassLoopEnd("radio", "probe")

PassNext ==
    \/ PassTextField
    \/ PassFindDropdowns
    \/ PassDropdown
    \/ PassFindRadioGroups
    \/ PassRadioGroup
    \/ PassProbe

PassSpec == PassInit /\ [][PassNext]_vars

\* C20: within one page pass the controls are handled in document order:
\* of any two controls, the one that comes first in the document is handled
\* first, whatever their kinds.
C20_DocumentOrder ==
    \A i, j \in 1..Len(visited) : i < j => visited[i] < visited[j]

\* ------------------------------------------------------------------------
\* One control handed to the body of its loop (lines 284-350)
\* ------------------------------------------------------------------------

\* the controls of the three loops, as one kind of record
DispatchControls ==
    {[kind |-> "text", held |-> c.held, has_id |-> c.has_id, label |-> c.label,
      legend |-> NoElement, options |-> <<>>] : c \in TextControls}
    \cup
    {[kind |-> "dropdown", held |-> c.held, has_id |-> c.has_id, label |-> c.label,
      legend |-> NoElement, options |-> c.options] : c \in DropdownControls}
    \cup
    {[kind |-> "radio", held |-> c.held, has_id |-> FALSE, label |-> NoElement,
      legend |-> c.legend, options |-> c.options] : c \in RadioControls}

\* the control is the only one of its list, on the first page
DispatchInit ==
    /\ profile \in Profiles
    /\ element \in DispatchControls
    /\ pc = element.kind
    /\ n = 1
    /\ idx = 1
    /\ page_count = 1
    /\ nav = {}
    /\ seenNav = {}
    /\ probed = <<>>
    /\ clicked = <<>>
    /\ issued = [get |-> 1, easy_apply |-> 1, continue |-> 0, review |-> 0, submit |-> 0]
    /\ pageActs = 0
    /\ allHeld = TRUE
    /\ ctlFailed = FALSE
    /\ exc = ""
    /\ result = NoResult
    /\ in_label = <<>>
    /\ in_options = <<>>
    /\ handler = ""
    /\ out_category = ""
    /\ out_action = Skip
    /\ out_answer = TRUE
    /\ doc = <<>>
    /\ visited = <<>>
    /\ MonitorIdle

\* what the body of a control loop does with its control: the action sent,
\* then the next control or the statement after the loop
DispatchBody(kind, body, after) ==
    /\ pc = kind
    /\ element.kind = kind
    /\ handler = ""
    /\ handler' = kind
    /\ out_action' = body.act
    /\ pageActs' = pageActs + (IF body.act.sent THEN 1 ELSE 0)
    /\ allHeld' = (allHeld /\ element.held)
    /\ ctlFailed' = (ctlFailed \/ body.failed)
    /\ ControlDone(body.failed, after)
    /\ UNCHANGED << profile, page_count, nav, seenNav, probed, clicked, issued, result,
                    in_label, in_options, out_category, out_answer, element,
                    passVars, monitorVars >>

\* Lines 284-317
DispatchTextField ==
    \E fault \in TextFaults :
        DispatchBody("text", TextFieldBody(profile, element, fault), "find_dropdowns")

\* Lines 321-337
DispatchDropdown ==
    \E fault \in DropdownFaults :
        DispatchBody("dropdown", DropdownBody(profile, element, fault), "find_radio_groups")

\* Lines 341-350
DispatchRadioGroup ==
    \E fault \in RadioFaults :
        DispatchBody("radio", RadioGroupBody(profile, element, fault), "probe_next")

DispatchNext ==
    \/ DispatchTextField
    \/ DispatchDropdown
    \/ DispatchRadioGroup

DispatchSpec == DispatchInit /\ [][DispatchNext]_vars

\* the control has no label to classify it by: a text input or dropdown
\* without an id or without a label for its id, a radio group without legend
Unlabelled ==
    \/ element.kind \in {"text", "dropdown"} /\ (~element.has_id \/ element.label = NoElement)
    \/ element.kind = "radio" /\ element.legend = NoElement

\* C21: a control without a label is left untouched: nothing is typed,
\* selected or clicked, no error leaves the loop body, and the pass goes on
\* to what follows the control.
C21_UnlabelledIsLeftAlone ==
    (handler # "" /\ Unlabelled) =>
        /\ out_action.kind = "Skip"
        /\ ~out_action.sent
        /\ pageActs = 0
        /\ exc = ""
        /\ pc \in {"find_dropdowns", "find_radio_groups", "probe_next"}

C21_Witness ==
    /\ handler = "radio"
    /\ element.legend = NoElement
    /\ ctlFailed
    /\ pc = "probe_next"
    /\ out_action = Skip

\* the text-field categories in the order of the if/elif chain, and the url
\* key of the profile each of the last three types
TextCategoryNames ==
    << "phone", "years-experience", "linkedin-url", "portfolio-url", "github-url" >>

TextCategoryUrlKey == << "", "", "linkedin_url", "portfolio_url", "github_url" >>

\* whether the keywords of each text-field category appear in the label
TextCategoryPresent ==
    << LabelHas(<<"p", "h", "o", "n", "e">>),
       LabelHas(<<"y", "e", "a", "r">>) /\ LabelHas(<<"e", "x", "p", "e", "r", "i", "e", "n", "c", "e">>),
       LabelHas(<<"l", "i", "n", "k", "e", "d", "i", "n">>),
       LabelHas(<<"w", "e", "b", "s", "i", "t", "e">>) \/ LabelHas(<<"p", "o", "r", "t", "f", "o", "l", "i", "o">>),
       LabelHas(<<"g", "i", "t", "h", "u", "b">>) >>

\* C22: an empty text field is handled by the first category, in the order
\* phone > years-experience > linkedin-url > portfolio-url > github-url,
\* whose keywords are in its label, and by that one only: one value is
\* typed, the one of that category (a label with "phone" and "linkedin" gets
\* the phone digits); a label with no category's keywords gets nothing.
C22_TextFirstMatchWins ==
    handler = "text_field" =>
        LET hit == {c \in 1..5 : TextCategoryPresent[c]}
        IN  IF hit = {}
            THEN out_category = "unclassified" /\ out_action = Skip
            ELSE \E c \in hit :
                    /\ \A d \in hit : c <= d
                    /\ out_category = TextCategoryNames[c]
                    /\ out_action.kind = "SetValue"
                    /\ out_action.sent
                    /\ c >= 3 => out_action.text =
                                    (IF TextCategoryUrlKey[c] \in DOMAIN profile
                                     THEN profile[TextCategoryUrlKey[c]] ELSE <<>>)
                    /\ (c = 1 /\ "phone" \in DOMAIN profile /\ profile["phone"] = <<"(", "2", "1", "2", ")", " ", "5", "5", "5", "-", "0", "1", "0", "0">>)
                          => out_action.text = <<"2", "1", "2", "5", "5", "5", "0", "1", "0", "0">>

C22_Witness ==
    /\ handler = "text_field"
    /\ in_label = <<"L", "i", "n", "k", "e", "d", "I", "n", " ", "o", "r", " ", "p", "h", "o", "n", "e">>
    /\ "linkedin_url" \in DOMAIN profile
    /\ out_category = "phone"
    /\ out_action.text = <<"2", "1", "2", "5", "5", "5", "0", "1", "0", "0">>

\* whether the keywords of each category of handle_radio_buttons appear in
\* the question, in the order of priority, and the profile flag of each
RadioAsked ==
    << LabelHas(<<"a", "u", "t", "h", "o", "r", "i", "z", "e", "d">>) \/ LabelHas(<<"s", "p", "o", "n", "s", "o", "r", "s", "h", "i", "p">>),
       LabelHas(<<"r", "e", "l", "o", "c", "a", "t", "e">>) \/ LabelHas(<<"r", "e", "l", "o", "c", "a", "t", "i", "o", "n">>),
       LabelHas(<<"r", "e", "m", "o", "t", "e">>) >>

RadioFlag == << "work_authorized", "willing_to_relocate", "open_to_remote" >>

\* C23: handle_radio_buttons takes the category of the question (work
\* authorization, then relocation, then remote work), the target "yes" when
\* that category's profile flag is true or absent and "no" when it is false,
\* and clicks the first option containing the target; it clicks nothing
\* when no option contains the target or the question has no category.
C23_RadioTargetFromFlag ==
    handler = "handle_radio_buttons" =>
        LET hit == {c \in 1..3 : RadioAsked[c]}
        IN  IF hit = {} THEN out_action = Skip
            ELSE LET top == CHOOSE c \in hit : \A d \in hit : c <= d
                     flag == IF RadioFlag[top] \in DOMAIN profile
                             THEN profile[RadioFlag[top]] ELSE TRUE
                     target == IF flag THEN <<"y", "e", "s">> ELSE <<"n", "o">>
                     good == {k \in 1..Len(in_options) : IsSubstr(target, OptionLower(k))}
                 IN  IF good = {} THEN out_action = Skip
                     ELSE /\ out_action.kind = "Click"
                          /\ out_action.index + 1 \in good
                          /\ \A j \in good : out_action.index + 1 <= j

\* the profile discloses under `flag' and has no value, or an empty one,
\* under `key'
DisclosedEmpty(flag, key) ==
    /\ Disclosed(flag)
    /\ key \notin DOMAIN profile \/ profile[key] = <<>>

\* C30: with gender_disclosure true and no or an empty gender in the
\* profile, a gender dropdown with at least one option gets its option 0
\* selected; the same for ethnicity_disclosure, ethnicity and an ethnicity
\* dropdown.
C30_EmptyValueSelectsFirstOption ==
    (handler = "handle_dropdown" /\ Len(in_options) > 0 /\ ~LabelAboveGender) =>
        /\ (LabelHas(<<"g", "e", "n", "d", "e", "r">>) /\ DisclosedEmpty("gender_disclosure", "gender"))
              => out_action.kind = "SelectOption" /\ out_action.index = 0 /\ out_action.sent
        /\ (/\ LabelHas(<<"r", "a", "c", "e">>) \/ LabelHas(<<"e", "t", "h", "n", "i", "c", "i", "t", "y">>)
            /\ ~LabelHas(<<"g", "e", "n", "d", "e", "r">>)
            /\ DisclosedEmpty("ethnicity_disclosure", "ethnicity"))
              => out_action.kind = "SelectOption" /\ out_action.index = 0 /\ out_action.sent

C30_Witness ==
    /\ handler = "handle_dropdown"
    /\ in_label = <<"R", "a", "c", "e", "/", "E", "t", "h", "n", "i", "c", "i", "t", "y">>
    /\ in_options = << <<"A", "s", "i", "a", "n">>, <<"W", "h", "i", "t", "e">> >>
    /\ DisclosedEmpty("ethnicity_disclosure", "ethnicity")
    /\ out_action.kind = "SelectOption"
    /\ out_action.index = 0

\* positions of fill_linkedin_easy_apply inside the body of its page loop
InsidePageLoop == pc \in ControlPcs \cup {"find_dropdowns", "find_radio_groups",
                                          "probe_next", "probe_review", "probe_submit"}

C26_PageState ==
    /\ InsidePageLoop => page_count \in 1..10
    /\ Len(clicked) <= 1
    /\ issued.continue + issued.review <= 10
    /\ issued.submit <= 1
    /\ issued.submit = 1 => pc \in {"done", "except"}

C26_AfterSubmit ==
    issued.submit = 1 =>
        /\ issued' = issued
        /\ clicked' = clicked
        /\ pageActs' = pageActs
        /\ page_count' = page_count

\* C26: in every run of fill_linkedin_easy_apply the page counter is
\* within 1..10 inside the loop, a page iteration issues at most one
\* navigation click, continue and review clicks together never exceed 10,
\* and submit is clicked at most once, after which nothing more is issued.
C26_NavigationBudget == []C26_PageState /\ [][C26_AfterSubmit]_vars

C26_Witness ==
    /\ pc = "done"
    /\ result = Applied
    /\ issued.submit = 1
    /\ page_count = 10
    /\ issued.continue + issued.review = 9
    /\ issued.review > 0

\* ------------------------------------------------------------------------
\* search_linkedin_jobs, the same code in job_monitor.py (lines 91-148) and
\* job_monitor_integrated.py (lines 104-161), and JobMonitor.apply_to_job
\* ------------------------------------------------------------------------

\* most job cards one search returns, and most searches of one run
MaxCards == 2

MaxSearches == 2

\* the href values the cards can carry
Urls == {"jobs/view/1", "jobs/view/2"}

\* one job card: what lines 109-120 read from it
Cards == [url : Urls, easy_apply : BOOLEAN]

\* the dict built on lines 122-132, the keys that are read again
job_data(card) == [url |-> card.url, easy_apply |-> card.easy_apply, status |-> "Found"]

\* the test of the tracking check taken on the last entry only
AlreadyTrackedLastOnly(job_url) ==
    jobs_found # <<>> /\ jobs_found[Len(jobs_found)].url = job_url

\* any(j['url'] == job_url for j in self.jobs_found)
AlreadyTracked(job_url) == \E j \in 1..Len(jobs_found) : jobs_found[j].url = job_url

\* the application started for every new card, Easy Apply or not
AutoAppliesAnyCard(is_easy_apply) == config.auto_apply

\* self.auto_apply and is_easy_apply
AutoApplies(is_easy_apply) == config.auto_apply /\ is_easy_apply

\* the `for card in job_cards[:20]' statement: next card, or the return
NextCard ==
    IF idx < n
    THEN pc' = "card" /\ idx' = idx + 1 /\ n' = n
    ELSE pc' = "idle" /\ idx' = 0 /\ n' = 0

\* job_data['status'] = status, on the dict appended last
SetStatus(found, status) == [found EXCEPT ![Len(found)].status = status]

\* the variables of the application flow and of the handlers, unused here
MonitorRest == << profile, seenNav, probed, pageActs, allHeld, ctlFailed, exc,
                  handlerVars, passVars >>

\* the run loop calls search_linkedin_jobs for the next keyword and
\* location: the search page is loaded and its cards collected; a failure
\* is logged by the outer handler and the call returns.
SearchBegin ==
    /\ pc = "idle"
    /\ searches < MaxSearches
    /\ searches' = searches + 1
    /\ \E fault \in {"none", "get", "find_cards"}, cnt \in 0..MaxCards :
         IF fault = "none" /\ cnt > 0
         THEN pc' = "card" /\ n' = cnt /\ idx' = 1
         ELSE pc' = "idle" /\ n' = 0 /\ idx' = 0
    /\ UNCHANGED << config, jobs_found, jobs_applied, attempts, contact_searches, skipped,
                    page_count, nav, clicked, issued, result, MonitorRest >>

\* One card of the loop: parsed (a failure is logged and the card passed
\* over), appended when its url is not tracked yet, and then handed to the
\* application when auto_apply is set and the card is Easy Apply.
Card(apply) ==
    /\ pc = "card"
    /\ \E card \in Cards, fault \in {"none", "parse"} :
         IF fault = "parse"
         THEN NextCard /\ UNCHANGED << jobs_found, attempts, skipped >>
         ELSE IF AlreadyTracked(card.url)
              THEN NextCard /\ skipped' = skipped + 1 /\ UNCHANGED << jobs_found, attempts >>
              ELSE /\ jobs_found' = Append(jobs_found, job_data(card))
                   /\ UNCHANGED skipped
                   /\ IF AutoApplies(card.easy_apply)
                      THEN /\ attempts' = Append(attempts, card.url)
                           /\ pc' = apply
                           /\ UNCHANGED << n, idx >>
                      ELSE NextCard /\ UNCHANGED attempts
    /\ UNCHANGED << config, jobs_applied, searches, contact_searches,
                    page_count, nav, clicked, issued, result, MonitorRest >>

\* job_monitor.py line 165: the loop bound raised by one
apply_to_job_max_pages_one_more == 5 + 1

\* job_monitor.py line 165: max_pages = 5
apply_to_job_max_pages == 5

\* the key missing from the config read as false
confirm_before_submit_default_false ==
    IF "confirm_before_submit" \in DOMAIN config THEN config["confirm_before_submit"] ELSE FALSE

\* job_monitor.py line 182: self.config.get('confirm_before_submit', True)
confirm_before_submit ==
    IF "confirm_before_submit" \in DOMAIN config THEN config["confirm_before_submit"] ELSE TRUE

\* job_monitor.py lines 204-206: the outer handler of apply_to_job marks the
\* job for a manual application; the card loop goes on.
ApplyToJobExcept ==
    /\ jobs_found' = SetStatus(jobs_found, "Manual Application Required")
    /\ NextCard

\* job_monitor.py lines 152-162: load the job page and click Easy Apply.
ApplyToJobStart ==
    /\ pc = "apply_to_job"
    /\ page_count' = 0
    /\ nav' = {}
    /\ clicked' = <<>>
    /\ \E fault \in {"none", "get", "wait", "click"} :
         /\ issued' = [get |-> 1, easy_apply |-> IF fault \in {"none", "click"} THEN 1 ELSE 0,
                       continue |-> 0, review |-> 0, submit |-> 0]
         /\ IF fault = "none"
            THEN pc' = "apply_page" /\ UNCHANGED << jobs_found, n, idx >>
            ELSE ApplyToJobExcept
    /\ UNCHANGED << config, jobs_applied, searches, attempts, contact_searches, skipped,
                    result, MonitorRest >>

\* job_monitor.py lines 166-195: one iteration of `for page in
\* range(max_pages)'.  The next button is looked up and clicked; when it is
\* not there the submit button is looked up, and whatever the outcome the
\* loop is left.  Only NoSuchElementException is caught inside the loop.
ApplyToJobPage ==
    /\ pc = "apply_page"
    /\ IF page_count < apply_to_job_max_pages
       THEN \E page_nav \in SUBSET {"continue", "submit"}, fault \in {"none", "find", "click"} :
              /\ page_count' = page_count + 1
              /\ nav' = page_nav
              /\ IF fault = "find"
                 THEN ApplyToJobExcept /\ UNCHANGED << issued, clicked, jobs_applied >>
                 ELSE IF "continue" \in page_nav
                 THEN /\ issued' = [issued EXCEPT !.continue = @ + 1]
                      /\ clicked' = Append(clicked, "continue")
                      /\ UNCHANGED jobs_applied
                      /\ IF fault = "click" THEN ApplyToJobExcept
                         ELSE pc' = "apply_page" /\ UNCHANGED << jobs_found, n, idx >>
                 ELSE IF "submit" \in page_nav /\ ~confirm_before_submit
                 THEN /\ issued' = [issued EXCEPT !.submit = @ + 1]
                      /\ clicked' = Append(clicked, "submit")
                      /\ IF fault = "click"
                         THEN ApplyToJobExcept /\ UNCHANGED jobs_applied
                         ELSE /\ jobs_found' = SetStatus(jobs_found, "Applied")
                              /\ jobs_applied' = Append(jobs_applied, Len(jobs_found))
                              /\ pc' = "apply_close"
                              /\ UNCHANGED << n, idx >>
                 ELSE /\ pc' = "apply_close"
                      /\ UNCHANGED << issued, clicked, jobs_found, jobs_applied, n, idx >>
       ELSE /\ pc' = "apply_close"
            /\ UNCHANGED << page_count, nav, issued, clicked, jobs_found, jobs_applied, n, idx >>
    /\ UNCHANGED << config, searches, attempts, contact_searches, skipped, result, MonitorRest >>

\* job_monitor.py lines 197-202: the Dismiss button is clicked if it can
\* be; the bare except swallows every failure.  The card loop goes on.
ApplyToJobClose ==
    /\ pc = "apply_close"
    /\ NextCard
    /\ UNCHANGED << config, jobs_found, jobs_applied, searches, attempts, contact_searches,
                    skipped, page_count, nav, clicked, issued, result, MonitorRest >>

\* the keys of config.json that JobMonitor reads here
MonitorConfigs ==
    {[auto_apply |-> a] : a \in BOOLEAN}
    \cup {[auto_apply |-> a, confirm_before_submit |-> c] : a \in BOOLEAN, c \in BOOLEAN}

\* the state every monitor is constructed in (job_monitor.py lines 49-51)
MonitorStart ==
    /\ jobs_found = <<>>
    /\ jobs_applied = <<>>
    /\ searches = 0
    /\ attempts = <<>>
    /\ contact_searches = <<>>
    /\ skipped = 0
    /\ pc = "idle"
    /\ n = 0
    /\ idx = 0
    /\ page_count = 0
    /\ nav = {}
    /\ seenNav = {}
    /\ probed = <<>>
    /\ clicked = <<>>
    /\ issued = [get |-> 0, easy_apply |-> 0, continue |-> 0, review |-> 0, submit |-> 0]
    /\ pageActs = 0
    /\ allHeld = TRUE
    /\ ctlFailed = FALSE
    /\ exc = ""
    /\ result = NoResult
    /\ in_label = <<>>
    /\ in_options = <<>>
    /\ handler = ""
    /\ out_category = ""
    /\ out_action = Skip
    /\ out_answer = TRUE
    /\ element = NoControl
    /\ doc = <<>>
    /\ visited = <<>>

\* JobMonitor has no profile
NoProfile == [first_name |-> <<>>]

MonitorInit ==
    /\ config \in MonitorConfigs
    /\ profile = NoProfile
    /\ MonitorStart

MonitorCard == Card("apply_to_job")

MonitorNext ==
    \/ SearchBegin
    \/ MonitorCard
    \/ ApplyToJobStart
    \/ ApplyToJobPage
    \/ ApplyToJobClose

MonitorSpec == MonitorInit /\ [][MonitorNext]_vars

C24_Ceiling == issued.continue <= 5 /\ (pc = "apply_page" => page_count <= 5)

\* a page of apply_to_job without the continue control ends the iteration
C24_StopsWithoutContinue ==
    (pc = "apply_page" /\ page_count' = page_count + 1 /\ "continue" \notin nav')
        => pc' # "apply_page" /\ issued'.continue = issued.continue

\* C24: JobMonitor.apply_to_job clicks the continue control at most 5
\* times in a run, and stops iterating at the first page where the continue
\* control is absent, whether or not a submit control is found there.
C24_FivePageCeiling == []C24_Ceiling /\ [][C24_StopsWithoutContinue]_vars

C24_Witness ==
    /\ pc = "apply_close"
    /\ page_count = 5
    /\ issued.continue = 5
    /\ nav = {"continue", "submit"}

\* the job dict the running apply_to_job call was given
CurrentJob == jobs_found[Len(jobs_found)]

C29_State ==
    /\ \A k \in 1..Len(jobs_applied) : jobs_found[jobs_applied[k]].status = "Applied"
    /\ \A j \in 1..Len(jobs_found) :
          jobs_found[j].status = "Applied" => \E k \in 1..Len(jobs_applied) : jobs_applied[k] = j
    /\ ("confirm_before_submit" \notin DOMAIN config \/ config["confirm_before_submit"])
          => issued.submit = 0 /\ jobs_applied = <<>>

C29_Step ==
    /\ jobs_applied' # jobs_applied
          => /\ "confirm_before_submit" \in DOMAIN config
             /\ config["confirm_before_submit"] = FALSE
             /\ issued'.submit = issued.submit + 1
             /\ clicked' = Append(clicked, "submit")
             /\ jobs_applied' = Append(jobs_applied, Len(jobs_found))
    /\ issued'.submit > issued.submit
          => "confirm_before_submit" \in DOMAIN config /\ config["confirm_before_submit"] = FALSE

\* C29: in JobMonitor.apply_to_job a job is appended to jobs_applied and
\* given the status Applied only after its submit control has been clicked,
\* which takes confirm_before_submit explicitly false; with the key true or
\* absent submit is never clicked and jobs_applied stays as it was.
C29_AppliedOnlyAfterSubmit == []C29_State /\ [][C29_Step]_vars

C29_Witness ==
    /\ pc = "apply_close"
    /\ config["auto_apply"]
    /\ "confirm_before_submit" \in DOMAIN config
    /\ ~config["confirm_before_submit"]
    /\ issued.submit = 1
    /\ CurrentJob.status = "Applied"
    /\ jobs_applied = << Len(jobs_found) >>

\* ------------------------------------------------------------------------
\* IntegratedJobMonitor (job_monitor_integrated.py): search_linkedin_jobs
\* and apply_and_network
\* ------------------------------------------------------------------------

\* the pairs fill_linkedin_easy_apply can return for this profile
\* (auto_apply_enhanced.py lines 377-384, 393 and 397)
FillOutcomes ==
    {MaxPagesReached, ErrorResult("click_continue")}
    \cup (IF auto_submit THEN {Applied} ELSE {ReadyToSubmit})

\* the contact search run whatever the configuration says
find_networking_contacts_always == TRUE

\* job_monitor_integrated.py line 44:
\* self.config.get('find_networking_contacts', True)
find_networking_contacts ==
    IF "find_networking_contacts" \in DOMAIN config
    THEN config["find_networking_contacts"] ELSE TRUE

\* job_monitor_integrated.py lines 175-208, up to the contact search: the
\* application is made, its status stored in the job, and on success the
\* job is appended to jobs_applied; the contact search follows when it is
\* enabled.
ApplyAndNetwork ==
    /\ pc = "apply_and_network"
    /\ \E r \in FillOutcomes :
         /\ result' = r
         /\ jobs_found' = SetStatus(jobs_found, r.status)
         /\ IF r.success
            THEN /\ jobs_applied' = Append(jobs_applied, Len(jobs_found))
                 /\ IF find_networking_contacts
                    THEN pc' = "contacts" /\ UNCHANGED << n, idx >>
                    ELSE NextCard
            ELSE /\ UNCHANGED jobs_applied
                 /\ NextCard
    /\ UNCHANGED << config, searches, attempts, contact_searches, skipped,
                    page_count, nav, clicked, issued, MonitorRest >>

\* job_monitor_integrated.py lines 186-201 and 211-213: the contact search
\* for the job just applied to; when it raises, the handler of
\* apply_and_network overwrites the status of the job.
FindContacts ==
    /\ pc = "contacts"
    /\ contact_searches' = Append(contact_searches, jobs_found[Len(jobs_found)].url)
    /\ \E outcome \in {"people", "nobody", "raise"} :
         jobs_found' = IF outcome = "raise" THEN SetStatus(jobs_found, "Error") ELSE jobs_found
    /\ NextCard
    /\ UNCHANGED << config, jobs_applied, searches, attempts, skipped,
                    page_count, nav, clicked, issued, result, MonitorRest >>

\* the keys of config.json that IntegratedJobMonitor reads here
IntegratedConfigs ==
    {[auto_apply |-> a] : a \in BOOLEAN}
    \cup {[auto_apply |-> a, find_networking_contacts |-> c] : a \in BOOLEAN, c \in BOOLEAN}

IntegratedInit ==
    /\ config \in IntegratedConfigs
    /\ profile \in Profiles
    /\ MonitorStart

IntegratedCard == Card("apply_and_network")

IntegratedNext ==
    \/ SearchBegin
    \/ IntegratedCard
    \/ ApplyAndNetwork
    \/ FindContacts

IntegratedSpec == IntegratedInit /\ [][IntegratedNext]_vars

\* the urls of the jobs in jobs_applied
AppliedUrls == {jobs_found[jobs_applied[k]].url : k \in 1..Len(jobs_applied)}

C25_State ==
    /\ \A k \in 1..Len(contact_searches) : contact_searches[k] \in AppliedUrls
    /\ ("find_networking_contacts" \in DOMAIN config /\ ~config["find_networking_contacts"])
          => contact_searches = <<>>

C25_Step ==
    /\ contact_searches' # contact_searches
          => /\ result.success
             /\ result' = result
             /\ attempts[Len(attempts)] = CurrentJob.url
             /\ Len(jobs_found) \in {jobs_applied[k] : k \in 1..Len(jobs_applied)}
             /\ contact_searches' = Append(contact_searches, CurrentJob.url)
             /\ "find_networking_contacts" \in DOMAIN config => config["find_networking_contacts"]
    /\ (pc = "apply_and_network" /\ pc' # pc /\ ~result'.success)
          => /\ result'.status \in {"Max Pages Reached", "Error"}
             /\ jobs_applied' = jobs_applied
             /\ contact_searches' = contact_searches
             /\ pc' # "contacts"

\* C25: in apply_and_network the contact search for a job is started only
\* after fill_linkedin_easy_apply has returned success for that job and
\* only when find_networking_contacts is enabled; after an unsuccessful
\* application no contact search is started and the job is not appended to
\* jobs_applied.
C25_ContactsOnlyAfterSuccess == []C25_State /\ [][C25_Step]_vars

C25_Witness ==
    /\ contact_searches # <<>>
    /\ Len(attempts) = 2
    /\ Len(jobs_applied) = 1
    /\ Len(contact_searches) = 1
    /\ ~result.success

\* the urls in jobs_found
FoundUrls == {jobs_found[j].url : j \in 1..Len(jobs_found)}

C27_State == \A i, j \in 1..Len(jobs_found) : i # j => jobs_found[i].url # jobs_found[j].url

C27_Step ==
    /\ jobs_found' # jobs_found /\ Len(jobs_found') # Len(jobs_found)
          => /\ Len(jobs_found') = Len(jobs_found) + 1
             /\ SubSeq(jobs_found', 1, Len(jobs_found)) = jobs_found
             /\ jobs_found'[Len(jobs_found')].url \notin FoundUrls
    /\ skipped' # skipped
          => jobs_found' = jobs_found /\ attempts' = attempts /\ jobs_applied' = jobs_applied

\* C27: after any sequence of search_linkedin_jobs calls no two entries
\* of jobs_found have the same url: a card whose url is tracked already is
\* neither appended again nor applied to.
C27_NoUrlTwice == []C27_State /\ [][C27_Step]_vars

C27_Witness ==
    /\ searches = 2
    /\ skipped >= 2
    /\ Len(jobs_found) = 2
    /\ pc = "idle"

C28_State ==
    /\ \A i, j \in 1..Len(attempts) : i # j => attempts[i] # attempts[j]
    /\ \A k \in 1..Len(attempts) :
          \E j \in 1..Len(jobs_found) : jobs_found[j].url = attempts[k] /\ jobs_found[j].easy_apply
    /\ attempts # <<>> => config["auto_apply"]
    /\ \A k \in 1..Len(jobs_applied) : jobs_applied[k] \in 1..Len(jobs_found)
    /\ \A i, j \in 1..Len(jobs_applied) :
          i # j => jobs_found[jobs_applied[i]].url # jobs_found[jobs_applied[j]].url
    /\ AppliedUrls \subseteq {attempts[k] : k \in 1..Len(attempts)}

C28_Step ==
    attempts' # attempts
        => /\ Len(jobs_found') = Len(jobs_found) + 1
           /\ jobs_found'[Len(jobs_found')].url \notin FoundUrls
           /\ jobs_found'[Len(jobs_found')].easy_apply
           /\ attempts' = Append(attempts, jobs_found'[Len(jobs_found')].url)
           /\ config["auto_apply"]

\* C28: within one run of IntegratedJobMonitor an application attempt is
\* started at most once per url, at the moment the job is first appended to
\* jobs_found, and only with auto_apply set and an Easy Apply card; every
\* entry of jobs_applied is an entry of jobs_found and jobs_applied holds
\* no url twice.
C28_OneAttemptPerUrl == []C28_State /\ [][C28_Step]_vars

C28_Witness ==
    /\ Len(attempts) = 2
    /\ Len(jobs_applied) = 2
    /\ skipped > 0
    /\ pc = "idle"
====
